---- MODULE Spec2Model ----
(***************************************************************************)
(* Model of the queue gateway (QueueGateway, "subscription multiplexer"),  *)
(* the Facade it calls (QueueService) and the exception filter that turns  *)
(* failures into 'queue:error' events.                                     *)
(*                                                                         *)
(* One action is one turn of the Node.js event loop: the synchronous part  *)
(* of a handler up to its first await, or the continuation that runs when  *)
(* an awaited Facade promise settles.                                      *)
(***************************************************************************)
EXTENDS Integers, Sequences, FiniteSets, Bags, TLC

\* ---------------------------------------------------------------- bounds
MaxInFlight == 1        \* Facade promises that may be unsettled at once
MaxCalls == 4           \* adapter calls issued in one behaviour
MaxPublishes == 1       \* publish calls among them
MaxCycles == 2          \* poll cycles that may be running at once
MaxConcurrent == 2      \* RabbitMqProvider calls in flight from ensureChannel on
MaxLazyCalls == 3       \* calls issued to a provider whose connections stay open
MaxPollingCalls == 3    \* calls issued to the SqsProvider while its polling is followed

\* ---------------------------------------------------------------- inputs
Clients == {"c1", "c2"}           \* Socket.id values handed out by the transport
Queues == {"q1", "q2"}            \* valid queue names
EmptyName == ""                   \* fails @IsNotEmpty()
Bodies == {"m1"}                  \* valid message bodies
EmptyBody == ""                   \* fails @IsNotEmpty()
Providers == {"sqs", "rabbitmq"}  \* QueueProvider
Undefined == "undefined"          \* JavaScript undefined
AdapterQueues == {"q1"}           \* queue names the adapter is called with
\* QueueMessage.attributes as a list of <<key, value>> entries; the empty list
\* stands for an absent or empty map
AttributeMaps == {<< <<"k", "v">> >>}

VARIABLES
  provider,             \* the adapter bound behind QUEUE_PROVIDER
  sockets,              \* server.sockets.sockets: ids of the live sockets
  gone,                 \* ids of sockets that disconnected (ids are never reused)
  clientSubscriptions,  \* Map<clientId, Set<queueName>>, both in insertion order
  queueHandlers,        \* keys of Map<queueName, handler>
  handed,               \* queue names whose fan-out handler was handed to the Facade
  inflight,             \* bag of unsettled Facade promises with their continuation
  lastOp,               \* what the last turn was (history)
  emitted,              \* events emitted during the last turn, in order (history)
  facadeCalls,          \* Facade calls made during the last turn, in order (history)
  visited,              \* unsubscribeFromQueue calls of the last handleDisconnect (history)
  watch,                \* what WatchedClient last asked about WatchedQueue (history)
  adapterCalls,         \* adapter calls (publish/subscribe/unsubscribe) that have not returned
  nextCall,             \* number of adapter calls issued so far
  published,            \* number of publish calls issued so far
  sqs,                  \* SqsProvider: queueUrls, pollingIntervals, subscribedQueues
  timers,               \* setInterval handles that have not been cleared
  cycles,               \* pollMessages() executions that have not returned
  rmq,                  \* RabbitMqProvider: consumers
  deliveries,           \* consume callbacks that have not settled their message
  backend,              \* the queue backend: queues, messages, consumers, frames on the wire
  adapterOp,            \* what the last adapter turn was (history)
  retired               \* handlers subscribed before an unsubscribe that resolved (history)

\* the state of the gateway's registry and its histories
registryVars == <<sockets, gone, clientSubscriptions, queueHandlers, handed, inflight,
                  lastOp, facadeCalls, visited, watch>>
\* the state of the bound adapter and of its backend
adapterVars == <<adapterCalls, nextCall, published, sqs, timers, cycles, rmq, deliveries, backend,
                 adapterOp, retired>>

vars == <<provider, emitted, registryVars, adapterVars>>

\* ------------------------------------------- JavaScript Set / Map, ordered
SetHas(s, x) == \E i \in 1..Len(s) : s[i] = x
SetAdd(s, x) == IF SetHas(s, x) THEN s ELSE Append(s, x)
SetDelete(s, x) == SelectSeq(s, LAMBDA y : y # x)
SetElems(s) == {s[i] : i \in 1..Len(s)}

MapHas(m, k) == \E i \in 1..Len(m) : m[i].id = k
MapGet(m, k) == IF MapHas(m, k) THEN m[CHOOSE i \in 1..Len(m) : m[i].id = k].queues
                ELSE Undefined
MapSet(m, k, v) ==
  IF MapHas(m, k)
  THEN [i \in 1..Len(m) |-> IF m[i].id = k THEN [id |-> k, queues |-> v] ELSE m[i]]
  ELSE Append(m, [id |-> k, queues |-> v])
MapDelete(m, k) == SelectSeq(m, LAMBDA e : e.id # k)
MapKeys(m) == {m[i].id : i \in 1..Len(m)}

\* the connections whose interest-set contains queueName
Interested(m, queueName) ==
  {m[i].id : i \in {j \in 1..Len(m) : SetHas(m[j].queues, queueName)}}

\* ------------------------------------------------------------ events
\* socket.emit(event, payload) to the socket of client `to`
Ev(to, event, queueName, message, details) ==
  [to |-> to, event |-> event, queueName |-> queueName, message |-> message,
   details |-> details]

\* `details: errorDetails.length > 0 ? errorDetails : undefined`
NoDetails == <<>>

Confirmations == {"queue:subscribed", "queue:unsubscribed", "queue:published"}

\* ------------------------------------------------------------ errors
QueueErrorKinds ==
  {"QueueError", "QueueNotFoundError", "QueueCreationError", "QueuePublishError",
   "QueueSubscribeError"}

\* what SqsProvider.subscribe / publish can reject with: its catch blocks
\* re-throw the three custom errors and wrap everything else
SqsSubscribeErrors == {"QueueNotFoundError", "QueueCreationError", "QueueSubscribeError"}
SqsPublishErrors == {"QueueNotFoundError", "QueueCreationError", "QueuePublishError"}
\* what RabbitMqProvider.subscribe / publish / unsubscribe reject with: their
\* catch blocks log and re-throw the error as it is (a plain Error)
RabbitMqErrors == {"Error"}

SubscribeErrors(p) == IF p = "sqs" THEN SqsSubscribeErrors ELSE RabbitMqErrors
PublishErrors(p) == IF p = "sqs" THEN SqsPublishErrors ELSE RabbitMqErrors
\* SqsProvider.unsubscribe has no failing step
UnsubscribeErrors(p) == IF p = "sqs" THEN {} ELSE RabbitMqErrors

\* a thrown exception: its class, the queueName a QueueError carries and the
\* error object a WsException carries (the ValidationPipe's ValidationError[])
Exception(kind, queueName, errors) ==
  [kind |-> kind, queueName |-> queueName, errors |-> errors]

\* a class-validator ValidationError. An error reported only for its children
\* (@ValidateNested) has no `constraints` key: hasConstraints is FALSE
ValidationError(property, hasConstraints, constraints, children) ==
  [property |-> property, hasConstraints |-> hasConstraints,
   constraints |-> constraints, children |-> children]

\* ValidationPipe over the DTO classes: the ValidationError[] of a payload
SubscribeQueueDtoErrors(data) ==
  IF data.queueName = EmptyName
  THEN <<ValidationError("queueName", TRUE, <<"queueName should not be empty">>, <<>>)>>
  ELSE <<>>
PublishQueueDtoErrors(data) ==
  (IF data.queueName = EmptyName
   THEN <<ValidationError("queueName", TRUE, <<"queueName should not be empty">>, <<>>)>>
   ELSE <<>>)
  \o (IF data.message.body = EmptyBody
      THEN <<ValidationError("message", FALSE, <<>>,
               <<ValidationError("body", TRUE, <<"body should not be empty">>, <<>>)>>)>>
      ELSE <<>>)

\* WebSocketExceptionFilter.isValidationError: 'property' in error && 'constraints' in error
IsValidationError(error) == error.hasConstraints

\* WebSocketExceptionFilter.formatValidationErrors
RECURSIVE FormatValidationErrors(_)
FormatValidationErrors(errors) ==
  IF errors = <<>> THEN <<>>
  ELSE (IF Head(errors).hasConstraints THEN Head(errors).constraints ELSE <<>>)
       \o FormatValidationErrors(Head(errors).children)
       \o FormatValidationErrors(Tail(errors))

\* WebSocketExceptionFilter.catch: one 'queue:error' event to the client. The
\* error object of a WsException thrown by the ValidationPipe is an array: it
\* is taken for validation errors when its first element passes
\* isValidationError, and otherwise falls to the object branch, where an array
\* has no `message`
WebSocketExceptionFilterCatch(clientId, exception) ==
  IF exception.kind = "WsException"
  THEN IF Len(exception.errors) > 0 /\ IsValidationError(exception.errors[1])
       THEN <<Ev(clientId, "queue:error", Undefined, "Validation failed",
                 FormatValidationErrors(exception.errors))>>
       ELSE <<Ev(clientId, "queue:error", Undefined, "An error occurred", NoDetails)>>
  ELSE <<Ev(clientId, "queue:error", exception.queueName, exception.kind, NoDetails)>>

\* @Catch(WsException, QueueError): the exception types the filter is bound to
FilterCatches(exception) == exception.kind \in {"WsException"} \cup QueueErrorKinds

\* @UseFilters(new WebSocketExceptionFilter()): an exception leaving a message
\* handler goes to the filter when its type is one the filter catches; any
\* other exception falls through to the framework's base filter, which emits
\* an 'exception' event and no 'queue:error'
ExceptionsZone(clientId, exception) ==
  IF FilterCatches(exception)
  THEN WebSocketExceptionFilterCatch(clientId, exception)
  ELSE <<Ev(clientId, "exception", Undefined, "Internal server error", NoDetails)>>

\* ------------------------------------------------------------ Facade
\* QueueService.subscribe / unsubscribe / publish delegate to the bound
\* adapter and return its promise; the call is recorded and the promise is
\* settled by a later turn
FacadeCall(op, queueName, message) ==
  [op |-> op, queueName |-> queueName, message |-> message]

Pending(op, clientId, queueName, subscriptions) ==
  [op |-> op, client |-> clientId, queueName |-> queueName,
   subscriptions |-> subscriptions]

PendingUnsubscribes(calls) ==
  LET idx == {i \in 1..Len(calls) : calls[i].op = "unsubscribe"}
      F[S \in SUBSET idx] ==
        IF S = {} THEN EmptyBag
        ELSE LET i == CHOOSE j \in S : TRUE
             IN F[S \ {i}] (+) SetToBag({Pending("unsubscribe", Undefined,
                                                 calls[i].queueName, Undefined)})
  IN F[idx]

\* a fan-out handler without the `.filter(([, queues]) => queues.has(queueName))`:
\* every connection with an entry is a recipient
FanOutHandler_NoFilter(subs, socks, queueName, message) ==
  LET live == SelectSeq(subs, LAMBDA e : e.id \in socks)
  IN [i \in 1..Len(live) |->
        Ev(live[i].id, "queue:message", queueName, message, NoDetails)]

\* ------------------------------------------------------------ gateway
\* the fan-out handler built by handleSubscribe (closure over queueName):
\* the events it emits for one message, in the order of the Map's entries
FanOutHandler(subs, socks, queueName, message) ==
  LET clients == SelectSeq(subs, LAMBDA e : SetHas(e.queues, queueName))
      live == SelectSeq(clients, LAMBDA e : e.id \in socks)
  IN [i \in 1..Len(live) |->
        Ev(live[i].id, "queue:message", queueName, message, NoDetails)]

\* unsubscribeFromQueue with hasOtherSubscribers computed before
\* `subscriptions.delete(queueName)`: the leaver counts as a subscriber
UnsubscribeFromQueue_CheckBeforeDelete(subs, clientId, queueName) ==
  LET subscriptions == MapGet(subs, clientId)
  IN IF ~MapHas(subs, clientId) \/ ~SetHas(subscriptions, queueName)
     THEN [subs |-> subs, calls |-> <<>>]
     ELSE LET after == MapSet(subs, clientId, SetDelete(subscriptions, queueName))
              hasOtherSubscribers == Interested(subs, queueName) # {}
          IN [subs |-> after,
              calls |-> IF ~hasOtherSubscribers
                        THEN <<FacadeCall("unsubscribe", queueName, Undefined)>>
                        ELSE <<>>]

\* unsubscribeFromQueue without the early return of lines 175-177
UnsubscribeFromQueue_NoEarlyReturn(subs, clientId, queueName) ==
  LET subscriptions == MapGet(subs, clientId)
      after == IF MapHas(subs, clientId)
               THEN MapSet(subs, clientId, SetDelete(subscriptions, queueName))
               ELSE subs
      hasOtherSubscribers == Interested(after, queueName) # {}
  IN [subs |-> after,
      calls |-> IF ~hasOtherSubscribers
                THEN <<FacadeCall("unsubscribe", queueName, Undefined)>>
                ELSE <<>>]

\* unsubscribeFromQueue(client, queueName) up to its return: the interest
\* sets after it and the Facade calls it made
UnsubscribeFromQueue(subs, clientId, queueName) ==
  LET subscriptions == MapGet(subs, clientId)
  IN IF ~MapHas(subs, clientId) \/ ~SetHas(subscriptions, queueName)
     THEN [subs |-> subs, calls |-> <<>>]
     ELSE LET after == MapSet(subs, clientId, SetDelete(subscriptions, queueName))
              hasOtherSubscribers == Interested(after, queueName) # {}
          IN [subs |-> after,
              calls |-> IF ~hasOtherSubscribers
                        THEN <<FacadeCall("unsubscribe", queueName, Undefined)>>
                        ELSE <<>>]

\* a loop that walks the Set by position in its current contents: a deletion
\* shifts the remaining elements under the index
RECURSIVE DisconnectLoop_ByIndex(_, _, _, _)
DisconnectLoop_ByIndex(st, clientId, entries, i) ==
  LET current == MapGet(st.subs, clientId)
  IN IF i > Len(current) THEN st
     ELSE LET r == UnsubscribeFromQueue(st.subs, clientId, current[i])
          IN DisconnectLoop_ByIndex([subs |-> r.subs, calls |-> st.calls \o r.calls,
                                     visited |-> Append(st.visited, current[i])],
                                    clientId, entries, i + 1)

\* for (const queueName of subscriptions) unsubscribeFromQueue(client, queueName):
\* a Set iterator walks the entry list as it was, skipping the entries that
\* have been deleted by the time it reaches them
RECURSIVE DisconnectLoop(_, _, _, _)
DisconnectLoop(st, clientId, entries, i) ==
  IF i > Len(entries) THEN st
  ELSE IF SetHas(MapGet(st.subs, clientId), entries[i])
  THEN LET r == UnsubscribeFromQueue(st.subs, clientId, entries[i])
       IN DisconnectLoop([subs |-> r.subs, calls |-> st.calls \o r.calls,
                          visited |-> Append(st.visited, entries[i])],
                         clientId, entries, i + 1)
  ELSE DisconnectLoop(st, clientId, entries, i + 1)

\* handleDisconnect(client)
DisconnectResult(subs, clientId) ==
  LET subscriptions == MapGet(subs, clientId)
  IN IF ~MapHas(subs, clientId)
     THEN [subs |-> subs, calls |-> <<>>, visited |-> <<>>]
     ELSE LET r == DisconnectLoop([subs |-> subs, calls |-> <<>>, visited |-> <<>>],
                                  clientId, subscriptions, 1)
          IN [subs |-> MapDelete(r.subs, clientId), calls |-> r.calls,
              visited |-> r.visited]

\* handleSubscribe lines 111-116, run with the `subscriptions` reference read
\* at line 72: "set" is the Set that was the client's entry then. That Set is
\* still the client's entry iff the client still has one (an entry is only
\* ever replaced through the `!subscriptions` branch, and an id is not reused)
AddToSubscriptionSet(subs, clientId, subscriptions, queueName) ==
  IF subscriptions = Undefined
  THEN MapSet(subs, clientId, <<queueName>>)
  ELSE IF MapHas(subs, clientId)
       THEN MapSet(subs, clientId, SetAdd(MapGet(subs, clientId), queueName))
       ELSE subs

\* the reference handleSubscribe reads at line 72
SubscriptionsRef(subs, clientId) == IF MapHas(subs, clientId) THEN "set" ELSE Undefined

\* handleSubscribe without the `if (!this.queueHandlers.has(queueName))` test:
\* every new subscriber builds a handler and calls the Facade
SubscribePath_NoHandlerCheck(subs, handlers, clientId, queueName) ==
  IF MapHas(subs, clientId) /\ SetHas(MapGet(subs, clientId), queueName) THEN "already"
  ELSE "await"

\* the branch handleSubscribe takes for a valid payload
SubscribePath(subs, handlers, clientId, queueName) ==
  IF MapHas(subs, clientId) /\ SetHas(MapGet(subs, clientId), queueName) THEN "already"
  ELSE IF queueName \notin handlers THEN "await"
  ELSE "joined"

\* handleSubscribe with lines 111-116 moved above the await of line 103
SubscribeTurn_AddBeforeAwait(subs, handlers, clientId, queueName) ==
  LET path == SubscribePath(subs, handlers, clientId, queueName)
      subscriptions == SubscriptionsRef(subs, clientId)
  IN CASE path = "already" ->
            [path |-> path, subs |-> subs, handlers |-> handlers, calls |-> <<>>,
             events |-> <<Ev(clientId, "queue:subscribed", queueName,
                             "Already subscribed to this queue", NoDetails)>>]
       [] path = "await" ->
            [path |-> path,
             subs |-> AddToSubscriptionSet(subs, clientId, subscriptions, queueName),
             handlers |-> handlers \cup {queueName},
             calls |-> <<FacadeCall("subscribe", queueName, Undefined)>>,
             events |-> <<>>]
       [] path = "joined" ->
            [path |-> path,
             subs |-> AddToSubscriptionSet(subs, clientId, subscriptions, queueName),
             handlers |-> handlers, calls |-> <<>>,
             events |-> <<Ev(clientId, "queue:subscribed", queueName,
                             "Successfully subscribed to queue", NoDetails)>>]

\* handleSubscribe(client, {queueName}) from its entry to its return or to the
\* await of line 103: the interest sets and handler keys it leaves, the Facade
\* calls it made and the events it emitted
SubscribeTurn(subs, handlers, clientId, queueName) ==
  LET path == SubscribePath(subs, handlers, clientId, queueName)
      subscriptions == SubscriptionsRef(subs, clientId)
  IN CASE path = "already" ->
            [path |-> path, subs |-> subs, handlers |-> handlers, calls |-> <<>>,
             events |-> <<Ev(clientId, "queue:subscribed", queueName,
                             "Already subscribed to this queue", NoDetails)>>]
       [] path = "await" ->
            [path |-> path, subs |-> subs, handlers |-> handlers \cup {queueName},
             calls |-> <<FacadeCall("subscribe", queueName, Undefined)>>,
             events |-> <<>>]
       [] path = "joined" ->
            [path |-> path,
             subs |-> AddToSubscriptionSet(subs, clientId, subscriptions, queueName),
             handlers |-> handlers, calls |-> <<>>,
             events |-> <<Ev(clientId, "queue:subscribed", queueName,
                             "Successfully subscribed to queue", NoDetails)>>]

Op(kind, clientId, queueName, message, path, thrown, repeat) ==
  [kind |-> kind, client |-> clientId, queueName |-> queueName, message |-> message,
   path |-> path, thrown |-> thrown, repeat |-> repeat]

\* ------------------------------------------------------------ state machine
\* The history variable `watch` follows one connection and one queue:
\*   "asked"  WatchedClient sent a subscribe request for WatchedQueue that was
\*            not rejected, and has sent no unsubscribe request for it since
\*   "left"   WatchedClient's last request for WatchedQueue was an unsubscribe
\*            that removed it from the queue while another connection stayed
\*   "none"   otherwise
WatchedClient == "c1"
WatchedQueue == "q1"
Watched(clientId, queueName) == clientId = WatchedClient /\ queueName = WatchedQueue

NoOp == Op("init", Undefined, Undefined, Undefined, Undefined, "none", FALSE)

\* the QueueMessage an adapter hands to a handler
QueueMessage(id, body, attributes) == [id |-> id, body |-> body, attributes |-> attributes]
\* the ids the backends assign are tuples; NoId is the id of a delivered
\* message that carries none (undefined)
NoId == <<>>
NoMessage == QueueMessage(NoId, "", <<>>)

\* an adapter turn: the operation called in it ("none": no call was made),
\* the call it belongs to (0: none), what the call returned in it ("ok", an
\* error class, or "none"), the handler it invoked (0: none) with which
\* message, and the ack/nack/delete requests it sent
AdapterOp(kind, called, call, queueName, returned, invoked, message, settled) ==
  [kind |-> kind, called |-> called, call |-> call, queueName |-> queueName,
   returned |-> returned, invoked |-> invoked, message |-> message,
   settled |-> settled]
NoAdapterOp == AdapterOp("init", "none", 0, Undefined, "none", 0, NoMessage, <<>>)

\* an absent connection or channel (undefined), and the connection onModuleInit
\* has established: a connection and its channel carry the id of the connect
\* attempt that opened them, and no call has this one
NoConnection == 0
InitConnection == MaxCalls + 1

\* the gateway, the adapters and the backend before any request, the
\* RabbitMqProvider holding connection and channel `conn`
ConstructedOn(conn) ==
  /\ sockets = {}
  /\ gone = {}
  /\ clientSubscriptions = <<>>
  /\ queueHandlers = {}
  /\ handed = {}
  /\ inflight = EmptyBag
  /\ lastOp = NoOp
  /\ emitted = <<>>
  /\ facadeCalls = <<>>
  /\ visited = <<>>
  /\ watch = "none"
  /\ adapterCalls = {}
  /\ nextCall = 0
  /\ published = 0
  /\ sqs = [queueUrls |-> {}, pollingIntervals |-> [q \in AdapterQueues |-> 0],
            subscribedQueues |-> {}, destroyed |-> FALSE]
  /\ timers = {}
  /\ cycles = {}
  /\ rmq = [consumers |-> [q \in AdapterQueues |-> 0], connection |-> conn, channel |-> conn,
            held |-> {}, teardown |-> "none", cancelling |-> 0, failed |-> {}]
  /\ deliveries = {}
  /\ backend = [queues |-> {}, ready |-> <<>>, taken |-> {}, wire |-> <<>>,
                consumers |-> {}, deleted |-> FALSE, accepted |-> <<>>,
                connections |-> {conn} \ {NoConnection}, channels |-> {conn} \ {NoConnection},
                full |-> FALSE]
  /\ adapterOp = NoAdapterOp
  /\ retired = {}

\* onModuleInit has run: connection and channel are open
Constructed == ConstructedOn(InitConnection)

Init ==
  /\ provider \in Providers
  /\ Constructed

\* handleConnection(client): the transport hands out a fresh id
HandleConnection(clientId) ==
  /\ clientId \notin sockets \cup gone
  /\ sockets' = sockets \cup {clientId}
  /\ clientSubscriptions' = MapSet(clientSubscriptions, clientId, <<>>)
  /\ lastOp' = Op("connect", clientId, Undefined, Undefined, Undefined, "none", FALSE)
  /\ emitted' = <<>>
  /\ facadeCalls' = <<>>
  /\ visited' = <<>>
  /\ UNCHANGED <<provider, gone, queueHandlers, handed, inflight, watch>>
  /\ UNCHANGED adapterVars

\* handleDisconnect(client): the transport has removed the socket
HandleDisconnect(clientId) ==
  LET r == DisconnectResult(clientSubscriptions, clientId)
  IN /\ clientId \in sockets
     /\ BagCardinality(inflight) + Len(r.calls) <= MaxInFlight
     /\ sockets' = sockets \ {clientId}
     /\ gone' = gone \cup {clientId}
     /\ clientSubscriptions' = r.subs
     /\ inflight' = inflight (+) PendingUnsubscribes(r.calls)
     /\ lastOp' = Op("disconnect", clientId, Undefined, Undefined, Undefined, "none", FALSE)
     /\ emitted' = <<>>
     /\ facadeCalls' = r.calls
     /\ visited' = r.visited
     /\ watch' = IF clientId = WatchedClient THEN "none" ELSE watch
     /\ UNCHANGED <<provider, queueHandlers, handed>>
     /\ UNCHANGED adapterVars

\* @SubscribeMessage('queue:subscribe') handleSubscribe(client, data), up to
\* its return or its await; an invalid payload is stopped by the ValidationPipe
HandleSubscribe(clientId, data) ==
  LET queueName == data.queueName
      errors == SubscribeQueueDtoErrors(data)
      t == SubscribeTurn(clientSubscriptions, queueHandlers, clientId, queueName)
      subscriptions == SubscriptionsRef(clientSubscriptions, clientId)
      repeat == Watched(clientId, queueName) /\ watch = "asked"
  IN /\ clientId \in sockets
     /\ visited' = <<>>
     /\ IF errors # <<>>
        THEN /\ emitted' = ExceptionsZone(clientId, Exception("WsException", Undefined, errors))
             /\ lastOp' = Op("subscribe", clientId, queueName, Undefined, "invalid",
                             "WsException", FALSE)
             /\ facadeCalls' = <<>>
             /\ UNCHANGED <<clientSubscriptions, queueHandlers, handed, inflight, watch>>
        ELSE /\ BagCardinality(inflight) + Len(t.calls) <= MaxInFlight
             /\ clientSubscriptions' = t.subs
             /\ queueHandlers' = t.handlers
             /\ facadeCalls' = t.calls
             /\ emitted' = t.events
             /\ inflight' = IF t.calls = <<>> THEN inflight
                            ELSE inflight (+) SetToBag({Pending("subscribe", clientId,
                                                                 queueName, subscriptions)})
             /\ handed' = IF t.calls = <<>> THEN handed ELSE handed \cup {queueName}
             /\ lastOp' = Op("subscribe", clientId, queueName, Undefined, t.path,
                             "none", repeat)
             /\ watch' = IF Watched(clientId, queueName) THEN "asked" ELSE watch
     /\ UNCHANGED <<provider, sockets, gone>>
     /\ UNCHANGED adapterVars

\* handleSubscribe resumes after line 103: the gateway's part of the turn
SubscribeResolveTurn(p) ==
  /\ BagIn(p, inflight) /\ p.op = "subscribe"
  /\ inflight' = inflight (-) SetToBag({p})
  /\ clientSubscriptions' =
       AddToSubscriptionSet(clientSubscriptions, p.client, p.subscriptions, p.queueName)
  /\ emitted' = <<Ev(p.client, "queue:subscribed", p.queueName,
                     "Successfully subscribed to queue", NoDetails)>>
  /\ lastOp' = Op("subscribeResolve", p.client, p.queueName, Undefined, "resumed",
                  "none", FALSE)
  /\ facadeCalls' = <<>>
  /\ visited' = <<>>
  /\ UNCHANGED <<provider, sockets, gone, queueHandlers, handed, watch>>

\* the Facade's subscribe resolved: handleSubscribe resumes after line 103
SubscribeResolve(p) ==
  /\ SubscribeResolveTurn(p)
  /\ UNCHANGED adapterVars

\* the Facade's subscribe rejected: the error leaves handleSubscribe at line 103
SubscribeReject(p, kind) ==
  /\ BagIn(p, inflight) /\ p.op = "subscribe"
  /\ kind \in SubscribeErrors(provider)
  /\ inflight' = inflight (-) SetToBag({p})
  /\ emitted' = ExceptionsZone(p.client, Exception(kind, p.queueName, <<>>))
  /\ lastOp' = Op("subscribeReject", p.client, p.queueName, Undefined, "resumed",
                  kind, FALSE)
  /\ facadeCalls' = <<>>
  /\ visited' = <<>>
  /\ watch' = IF Watched(p.client, p.queueName) /\ watch = "asked" THEN "none" ELSE watch
  /\ UNCHANGED <<provider, sockets, gone, clientSubscriptions, queueHandlers,
                 handed>>
  /\ UNCHANGED adapterVars

\* @SubscribeMessage('queue:unsubscribe') handleUnsubscribe(client, data)
HandleUnsubscribe(clientId, data) ==
  LET queueName == data.queueName
      errors == SubscribeQueueDtoErrors(data)
      r == UnsubscribeFromQueue(clientSubscriptions, clientId, queueName)
      wasSubscribed == clientId \in Interested(clientSubscriptions, queueName)
      othersStay == Interested(r.subs, queueName) # {}
  IN /\ clientId \in sockets
     /\ visited' = <<>>
     /\ IF errors # <<>>
        THEN /\ emitted' = ExceptionsZone(clientId, Exception("WsException", Undefined, errors))
             /\ lastOp' = Op("unsubscribe", clientId, queueName, Undefined, "invalid",
                             "WsException", FALSE)
             /\ facadeCalls' = <<>>
             /\ UNCHANGED <<clientSubscriptions, inflight, watch>>
        ELSE /\ BagCardinality(inflight) + Len(r.calls) <= MaxInFlight
             /\ clientSubscriptions' = r.subs
             /\ facadeCalls' = r.calls
             /\ inflight' = inflight (+) PendingUnsubscribes(r.calls)
             /\ emitted' = <<Ev(clientId, "queue:unsubscribed", queueName,
                                "Successfully unsubscribed from queue", NoDetails)>>
             /\ lastOp' = Op("unsubscribe", clientId, queueName, Undefined,
                             IF wasSubscribed THEN "removed" ELSE "absent", "none", FALSE)
             /\ watch' = IF ~Watched(clientId, queueName) THEN watch
                         ELSE IF wasSubscribed /\ othersStay THEN "left"
                         ELSE "none"
     /\ UNCHANGED <<provider, sockets, gone, queueHandlers, handed>>
     /\ UNCHANGED adapterVars

\* the .then callback of unsubscribeFromQueue: the gateway's part of the turn
UnsubscribeResolveTurn(p) ==
  /\ BagIn(p, inflight) /\ p.op = "unsubscribe"
  /\ inflight' = inflight (-) SetToBag({p})
  /\ queueHandlers' = queueHandlers \ {p.queueName}
  /\ lastOp' = Op("unsubscribeResolve", Undefined, p.queueName, Undefined, "resumed",
                  "none", FALSE)
  /\ emitted' = <<>>
  /\ facadeCalls' = <<>>
  /\ visited' = <<>>
  /\ UNCHANGED <<provider, sockets, gone, clientSubscriptions, handed, watch>>

\* the Facade's unsubscribe resolved: the .then callback of unsubscribeFromQueue
UnsubscribeResolve(p) ==
  /\ UnsubscribeResolveTurn(p)
  /\ UNCHANGED adapterVars

\* an unsubscribeFromQueue whose .catch hands the error to the exception
\* filter of the gateway
UnsubscribeReject_Surfaced(p, kind) ==
  /\ BagIn(p, inflight) /\ p.op = "unsubscribe"
  /\ kind \in UnsubscribeErrors(provider)
  /\ inflight' = inflight (-) SetToBag({p})
  /\ lastOp' = Op("unsubscribeReject", Undefined, p.queueName, Undefined, "resumed",
                  kind, FALSE)
  /\ emitted' = ExceptionsZone(p.client, Exception(kind, p.queueName, <<>>))
  /\ facadeCalls' = <<>>
  /\ visited' = <<>>
  /\ UNCHANGED <<provider, sockets, gone, clientSubscriptions, queueHandlers,
                 handed, watch>>
  /\ UNCHANGED adapterVars

\* the Facade's unsubscribe rejected: the .catch callback logs the error
UnsubscribeReject(p, kind) ==
  /\ BagIn(p, inflight) /\ p.op = "unsubscribe"
  /\ kind \in UnsubscribeErrors(provider)
  /\ inflight' = inflight (-) SetToBag({p})
  /\ lastOp' = Op("unsubscribeReject", Undefined, p.queueName, Undefined, "resumed",
                  "logged", FALSE)
  /\ emitted' = <<>>
  /\ facadeCalls' = <<>>
  /\ visited' = <<>>
  /\ UNCHANGED <<provider, sockets, gone, clientSubscriptions, queueHandlers,
                 handed, watch>>
  /\ UNCHANGED adapterVars

\* a handlePublish that calls the Facade's publish a second time
PublishCalls_Twice(data) ==
  <<FacadeCall("publish", data.queueName, data.message.body),
    FacadeCall("publish", data.queueName, data.message.body)>>

\* handlePublish's Facade calls: `this.queueService.publish({queueName, message})`
PublishCalls(data) == <<FacadeCall("publish", data.queueName, data.message.body)>>

\* @SubscribeMessage('queue:publish') handlePublish(client, data), up to its await
HandlePublish(clientId, data) ==
  LET queueName == data.queueName
      errors == PublishQueueDtoErrors(data)
  IN /\ clientId \in sockets
     /\ visited' = <<>>
     /\ IF errors # <<>>
        THEN /\ emitted' = ExceptionsZone(clientId, Exception("WsException", Undefined, errors))
             /\ lastOp' = Op("publish", clientId, queueName, data.message.body, "invalid",
                             "WsException", FALSE)
             /\ facadeCalls' = <<>>
             /\ UNCHANGED inflight
        ELSE /\ BagCardinality(inflight) < MaxInFlight
             /\ facadeCalls' = PublishCalls(data)
             /\ inflight' = inflight (+)
                  SetToBag({Pending("publish", clientId, queueName, Undefined)})
             /\ emitted' = <<>>
             /\ lastOp' = Op("publish", clientId, queueName, data.message.body, "await",
                             "none", FALSE)
     /\ UNCHANGED <<provider, sockets, gone, clientSubscriptions, queueHandlers,
                    handed, watch>>
     /\ UNCHANGED adapterVars

\* the Facade's publish resolved: handlePublish resumes after line 162
PublishResolve(p) ==
  /\ BagIn(p, inflight) /\ p.op = "publish"
  /\ inflight' = inflight (-) SetToBag({p})
  /\ emitted' = <<Ev(p.client, "queue:published", p.queueName,
                     "Message published successfully", NoDetails)>>
  /\ lastOp' = Op("publishResolve", p.client, p.queueName, Undefined, "resumed",
                  "none", FALSE)
  /\ facadeCalls' = <<>>
  /\ visited' = <<>>
  /\ UNCHANGED <<provider, sockets, gone, clientSubscriptions, queueHandlers,
                 handed, watch>>
  /\ UNCHANGED adapterVars

\* the Facade's publish rejected: the error leaves handlePublish at line 162
PublishReject(p, kind) ==
  /\ BagIn(p, inflight) /\ p.op = "publish"
  /\ kind \in PublishErrors(provider)
  /\ inflight' = inflight (-) SetToBag({p})
  /\ emitted' = ExceptionsZone(p.client, Exception(kind, p.queueName, <<>>))
  /\ lastOp' = Op("publishReject", p.client, p.queueName, Undefined, "resumed",
                  kind, FALSE)
  /\ facadeCalls' = <<>>
  /\ visited' = <<>>
  /\ UNCHANGED <<provider, sockets, gone, clientSubscriptions, queueHandlers,
                 handed, watch>>
  /\ UNCHANGED adapterVars

\* the handler built for queueName is invoked with a message. The adapter that
\* was handed the handler decides when: any time from the Facade call on
FanOut(queueName, message) ==
  /\ queueName \in handed
  /\ emitted' = FanOutHandler(clientSubscriptions, sockets, queueName, message)
  /\ lastOp' = Op("fanout", Undefined, queueName, message, Undefined, "none", FALSE)
  /\ facadeCalls' = <<>>
  /\ visited' = <<>>
  /\ UNCHANGED <<provider, sockets, gone, clientSubscriptions, queueHandlers,
                 handed, inflight, watch>>
  /\ UNCHANGED adapterVars

\* the events of a fan-out that reach their socket when the send to `failing`
\* fails. The handler's loop (lines 89-97) has no error handling of its own:
\* an emit that raises ends the loop, an emit whose failure stays inside the
\* transport does not
FanOutWithFailure(subs, socks, queueName, message, failing, raises) ==
  LET sends == FanOutHandler(subs, socks, queueName, message)
      at == {i \in 1..Len(sends) : sends[i].to = failing}
  IN IF at = {} THEN sends
     ELSE IF raises THEN SubSeq(sends, 1, (CHOOSE i \in at : TRUE) - 1)
     ELSE SelectSeq(sends, LAMBDA e : e.to # failing)

\* the handler built for queueName is invoked with a message while the
\* transport of one of its recipients fails the send: socket.emit raises, or
\* drops the event
FanOutSendFails(queueName, message, failing, raises) ==
  /\ queueName \in handed
  /\ failing \in sockets \cap Interested(clientSubscriptions, queueName)
  /\ emitted' = FanOutWithFailure(clientSubscriptions, sockets, queueName, message,
                                  failing, raises)
  /\ lastOp' = Op("fanout", failing, queueName, message, "sendFailed",
                  IF raises THEN "Error" ELSE "none", FALSE)
  /\ facadeCalls' = <<>>
  /\ visited' = <<>>
  /\ UNCHANGED <<provider, sockets, gone, clientSubscriptions, queueHandlers,
                 handed, inflight, watch>>
  /\ UNCHANGED adapterVars

Settled(op) == {p \in BagToSet(inflight) : p.op = op}

\* the registry's operations, with valid payloads
NextRegistry ==
  \/ \E c \in Clients : HandleConnection(c)
  \/ \E c \in Clients : HandleDisconnect(c)
  \/ \E c \in Clients, q \in Queues : HandleSubscribe(c, [queueName |-> q])
  \/ \E p \in Settled("subscribe") : SubscribeResolve(p)
  \/ \E p \in Settled("subscribe"), k \in SubscribeErrors(provider) : SubscribeReject(p, k)
  \/ \E c \in Clients, q \in Queues : HandleUnsubscribe(c, [queueName |-> q])
  \/ \E p \in Settled("unsubscribe") : UnsubscribeResolve(p)
  \/ \E p \in Settled("unsubscribe"), k \in UnsubscribeErrors(provider) : UnsubscribeReject(p, k)
  \/ \E q \in Queues, m \in Bodies : FanOut(q, m)

Spec == Init /\ [][NextRegistry]_vars

\* the registry's operations, with fan-outs in which one send fails
NextFanOut ==
  \/ NextRegistry
  \/ \E q \in Queues, m \in Bodies, c \in Clients, raises \in BOOLEAN :
       FanOutSendFails(q, m, c, raises)

SpecFanOut == Init /\ [][NextFanOut]_vars

\* every request kind, valid and invalid payloads, on one queue name
RequestQueues == {"q1"}
SubscribePayloads == [queueName : RequestQueues \cup {EmptyName}]
PublishPayloads ==
  [queueName : RequestQueues \cup {EmptyName}, message : [body : Bodies \cup {EmptyBody}]]

NextRequests ==
  \/ \E c \in Clients : HandleConnection(c)
  \/ \E c \in Clients : HandleDisconnect(c)
  \/ \E c \in Clients, d \in SubscribePayloads : HandleSubscribe(c, d)
  \/ \E p \in Settled("subscribe") : SubscribeResolve(p)
  \/ \E p \in Settled("subscribe"), k \in SubscribeErrors(provider) : SubscribeReject(p, k)
  \/ \E c \in Clients, d \in SubscribePayloads : HandleUnsubscribe(c, d)
  \/ \E p \in Settled("unsubscribe") : UnsubscribeResolve(p)
  \/ \E p \in Settled("unsubscribe"), k \in UnsubscribeErrors(provider) : UnsubscribeReject(p, k)
  \/ \E c \in Clients, d \in PublishPayloads : HandlePublish(c, d)
  \/ \E p \in Settled("publish") : PublishResolve(p)
  \/ \E p \in Settled("publish"), k \in PublishErrors(provider) : PublishReject(p, k)

SpecRequests == Init /\ [][NextRequests]_vars

\* ------------------------------------------------------------ QueueModule
\* QueueModuleOptions: the provider and the two optional configuration
\* objects; NoConfig stands for a configuration that is not given (undefined)
NoConfig == [given |-> FALSE]
SqsConfigs ==
  [given : {TRUE}, region : {"us-east-1", "eu-west-1"},
   endpoint : {Undefined, "http://localhost:4566"},
   accessKeyId : {Undefined, "test"}, secretAccessKey : {Undefined, "test"}]
RabbitMqConfigs == [given : {TRUE}, url : {"amqp://localhost:5672", "amqp://rabbit:5672"}]
QueueModuleOptions ==
  [provider : Providers, sqs : SqsConfigs \cup {NoConfig},
   rabbitmq : RabbitMqConfigs \cup {NoConfig}]

\* the entries of forRoot's providerConfig table
ProviderConfig(options) ==
  [sqs |-> [config |-> options.sqs, configToken |-> "SQS_CONFIG",
            providerClass |-> "SqsProvider",
            errorMessage |-> "SQS configuration is required when using SQS provider"],
   rabbitmq |-> [config |-> options.rabbitmq, configToken |-> "RABBITMQ_CONFIG",
                 providerClass |-> "RabbitMqProvider",
                 errorMessage |->
                   "RabbitMQ configuration is required when using RabbitMQ provider"]]

\* a class given as a provider stands for {provide: Class, useClass: Class}
ClassProvider(class) == [provide |-> class, useClass |-> class]
NoModule == [module |-> Undefined, providers |-> <<>>, exports |-> <<>>]

\* a forRoot that registers both adapter classes and aliases the selected one
ForRoot_BothAdapters(options) ==
  LET selected == ProviderConfig(options)[options.provider]
  IN IF ~selected.config.given
     THEN [thrown |-> selected.errorMessage, module |-> NoModule]
     ELSE [thrown |-> "none",
           module |->
             [module |-> "QueueModule",
              providers |->
                <<ClassProvider("QueueService"),
                  [provide |-> selected.configToken, useValue |-> selected.config],
                  ClassProvider("SqsProvider"),
                  ClassProvider("RabbitMqProvider"),
                  [provide |-> "QUEUE_PROVIDER", useExisting |-> selected.providerClass],
                  ClassProvider("QueueGateway")>>,
              exports |-> <<"QueueService">>]]

\* QueueModule.forRoot(options): the error it throws or the DynamicModule it returns
ForRoot(options) ==
  LET selected == ProviderConfig(options)[options.provider]
  IN IF ~selected.config.given
     THEN [thrown |-> selected.errorMessage, module |-> NoModule]
     ELSE [thrown |-> "none",
           module |->
             [module |-> "QueueModule",
              providers |->
                <<ClassProvider("QueueService"),
                  [provide |-> selected.configToken, useValue |-> selected.config],
                  ClassProvider(selected.providerClass),
                  [provide |-> "QUEUE_PROVIDER", useExisting |-> selected.providerClass],
                  ClassProvider("QueueGateway")>>,
              exports |-> <<"QueueService">>]]

\* the entries of a provider list registered under a token
Provided(providers, token) ==
  {i \in 1..Len(providers) : providers[i].provide = token}

\* the class the container instantiates for a token: an alias is followed
Resolve(providers, token) ==
  LET at == Provided(providers, token)
  IN IF at = {} THEN Undefined
     ELSE LET entry == providers[CHOOSE i \in at : TRUE]
          IN IF "useExisting" \in DOMAIN entry
             THEN IF Provided(providers, entry.useExisting) = {} THEN Undefined
                  ELSE entry.useExisting
             ELSE entry.provide

\* the adapter the process runs with, by the class bound to QUEUE_PROVIDER
AdapterOf(class) ==
  IF class = "SqsProvider" THEN "sqs"
  ELSE IF class = "RabbitMqProvider" THEN "rabbitmq"
  ELSE Undefined

\* process start: no adapter is bound yet
InitUnbound ==
  /\ provider = Undefined
  /\ Constructed

\* the application module imports QueueModule.forRoot(options)
ForRootCall(options) ==
  LET r == ForRoot(options)
  IN /\ provider = Undefined
     /\ provider' = AdapterOf(Resolve(r.module.providers, "QUEUE_PROVIDER"))
     /\ lastOp' = [kind |-> "forRoot", options |-> options, thrown |-> r.thrown,
                   module |-> r.module]
     /\ emitted' = <<>>
     /\ facadeCalls' = <<>>
     /\ visited' = <<>>
     /\ UNCHANGED <<sockets, gone, clientSubscriptions, queueHandlers, handed, inflight,
                    watch>>
     /\ UNCHANGED adapterVars

NextModule == \E options \in QueueModuleOptions : ForRootCall(options)

SpecModule == InitUnbound /\ [][NextModule]_vars

\* ------------------------------------------------------------ adapters
\* The adapter is driven directly, as the Facade drives it. The caller of
\* publish is the gateway's handlePublish for Requester, and the handler of
\* every subscribe is the gateway's fan-out handler with Requester subscribed.
Requester == "c1"
PriorSubscriber(queueName) == <<[id |-> Requester, queues |-> <<queueName>>]>>
PublishInputs == [body : Bodies, attributes : AttributeMaps]

AdapterCall(id, op, queueName, message, pc, tag) ==
  [id |-> id, op |-> op, queueName |-> queueName, message |-> message, pc |-> pc,
   tag |-> tag]

\* what the gateway emits in the turn in which the Facade call of a publish
\* request settles (handlePublish after its await, or the exception filter)
PublishOutcomeEvents(queueName, returned) ==
  IF returned = "ok"
  THEN <<Ev(Requester, "queue:published", queueName, "Message published successfully",
            NoDetails)>>
  ELSE ExceptionsZone(Requester, Exception(returned, queueName, <<>>))

\* the fan-out of one handler invocation
HandlerEvents(queueName, queueMessage) ==
  FanOutHandler(PriorSubscriber(queueName), {Requester}, queueName, queueMessage)

\* the frame of an adapter turn
AdapterFrame == UNCHANGED <<provider, registryVars>>

\* ------------------------------------------------------------ SqsProvider
MaxNumberOfMessages == 10

\* publish's MessageAttributes: every entry becomes {DataType: 'String', StringValue}
SqsMessageAttributes(attributes) ==
  [i \in 1..Len(attributes) |->
     <<attributes[i][1], [DataType |-> "String", StringValue |-> attributes[i][2]]>>]

\* pollMessages' decoding of MessageAttributes: the entries with a StringValue
SqsAttributes(messageAttributes) ==
  LET kept == SelectSeq(messageAttributes, LAMBDA e : "StringValue" \in DOMAIN e[2])
  IN [i \in 1..Len(kept) |-> <<kept[i][1], kept[i][2].StringValue>>]

\* the message SQS stores for a SendMessageCommand: it assigns the MessageId
SqsStored(call) ==
  [by |-> call.id, input |-> call.message, MessageId |-> <<"MessageId", call.id>>,
   Body |-> call.message.body,
   MessageAttributes |-> SqsMessageAttributes(call.message.attributes)]

\* pollMessages: the QueueMessage built from a received message
SqsQueueMessage(message) ==
  QueueMessage(message.MessageId, message.Body, SqsAttributes(message.MessageAttributes))

\* subscribe after `await this.getQueueUrl(...)`: the existing schedule of the
\* name is stopped, the name is marked subscribed, and a new schedule is set
SqsInstall(st, tm, id, queueName) ==
  LET existingInterval == st.pollingIntervals[queueName]
  IN [sqs |-> [st EXCEPT !.subscribedQueues = @ \cup {queueName},
                         !.pollingIntervals[queueName] = id],
      timers |-> (tm \ {existingInterval}) \cup {id}]

\* unsubscribe(queueName)
SqsUnsubscribe(st, tm, queueName) ==
  LET interval == st.pollingIntervals[queueName]
  IN [sqs |-> [st EXCEPT !.subscribedQueues = @ \ {queueName},
                         !.pollingIntervals[queueName] = 0],
      timers |-> tm \ {interval}]

\* pollMessages at the top of its for-loop body, with `batch` still to process:
\* "invoke" the handler with the head, or "return"
SqsNextStep(st, queueName, batch) ==
  IF batch = <<>> THEN "return"
  ELSE IF queueName \notin st.subscribedQueues THEN "return"
  ELSE "invoke"

Cycle(sub, queueName, pc, batch) ==
  [sub |-> sub, queueName |-> queueName, pc |-> pc, batch |-> batch]

\* the handlers subscribed for a name: that of its schedule and those of its
\* running cycles
SqsLiveHandlers(queueName) ==
  ({sqs.pollingIntervals[queueName]} \ {0}) \cup
  {c.sub : c \in {d \in cycles : d.queueName = queueName}}

\* pollMessages() is started for subscription `sub`: nothing happens unless the
\* name is subscribed; otherwise a ReceiveMessageCommand is sent
SqsStartCycle(cs, st, sub, queueName) ==
  IF queueName \in st.subscribedQueues
  THEN cs \cup {Cycle(sub, queueName, "receive", <<>>)}
  ELSE cs

\* the continuation of a call once the queue URL is known
SqsProceed(call, called) ==
  IF call.op = "subscribe"
  THEN LET r == SqsInstall([sqs EXCEPT !.queueUrls = @ \cup {call.queueName}], timers,
                           call.id, call.queueName)
       IN /\ sqs' = r.sqs
          /\ timers' = r.timers
          /\ cycles' = SqsStartCycle(cycles, r.sqs, call.id, call.queueName)
          /\ adapterCalls' = adapterCalls \ {call}
          /\ adapterOp' = AdapterOp("subscribeReturn", called, call.id, call.queueName, "ok", 0,
                                    NoMessage, <<>>)
          /\ emitted' = <<>>
       ELSE /\ sqs' = [sqs EXCEPT !.queueUrls = @ \cup {call.queueName}]
            /\ adapterCalls' = (adapterCalls \ {call}) \cup {[call EXCEPT !.pc = "send"]}
            /\ adapterOp' = AdapterOp("send", called, call.id, call.queueName, "none", 0,
                                      NoMessage, <<>>)
            /\ emitted' = <<>>
            /\ UNCHANGED <<timers, cycles>>

\* the call fails with an error of class `kind`
SqsFail(call, kind) ==
  /\ adapterCalls' = adapterCalls \ {call}
  /\ adapterOp' = AdapterOp(call.op \o "Return", "none", call.id, call.queueName, kind, 0,
                            NoMessage, <<>>)
  /\ emitted' = IF call.op = "publish" THEN PublishOutcomeEvents(call.queueName, kind)
                ELSE <<>>
  /\ UNCHANGED <<sqs, timers, cycles>>

\* the class an error that is not one of the custom errors is wrapped in
SqsWrapped(op) == IF op = "publish" THEN "QueuePublishError" ELSE "QueueSubscribeError"

\* an ensureQueueExists that never finds the name in its cache
SqsCached_Never(st, queueName) == FALSE

\* ensureQueueExists: `this.queueUrls.has(queueName)`
SqsCached(st, queueName) == queueName \in st.queueUrls

\* publish(options) / subscribe(options) is called: ensureQueueExists answers
\* from the cache or sends a GetQueueUrlCommand
SqsCall(op, queueName, message) ==
  LET call == AdapterCall(nextCall + 1, op, queueName, message, "getQueueUrl", 0)
  IN /\ provider = "sqs"
     /\ nextCall < MaxCalls
     /\ op = "publish" => published < MaxPublishes
     /\ Cardinality(cycles) < MaxCycles
     /\ nextCall' = nextCall + 1
     /\ published' = IF op = "publish" THEN published + 1 ELSE published
     /\ IF SqsCached(sqs, queueName)
        THEN SqsProceed(call, op)
        ELSE /\ adapterCalls' = adapterCalls \cup {call}
             /\ adapterOp' = AdapterOp("getQueueUrl", op, call.id, queueName, "none", 0,
                                       NoMessage, <<>>)
             /\ emitted' = <<>>
             /\ UNCHANGED <<sqs, timers, cycles>>
     /\ UNCHANGED <<rmq, deliveries, backend, retired>>
     /\ AdapterFrame

\* the GetQueueUrlCommand returns: the URL, 'queue does not exist', or an error
SqsGetQueueUrlReturn(call, outcome) ==
  /\ call \in adapterCalls /\ call.pc = "getQueueUrl"
  /\ provider = "sqs"
  /\ outcome \in {"error"} \cup (IF call.queueName \in backend.queues THEN {"found"}
                                 ELSE {"notFound"})
  /\ Cardinality(cycles) < MaxCycles
  /\ CASE outcome = "found" -> SqsProceed(call, "none")
       [] outcome = "notFound" ->
            /\ adapterCalls' = (adapterCalls \ {call}) \cup {[call EXCEPT !.pc = "createQueue"]}
            /\ adapterOp' = AdapterOp("createQueue", "none", call.id, call.queueName, "none", 0,
                                      NoMessage, <<>>)
            /\ emitted' = <<>>
            /\ UNCHANGED <<sqs, timers, cycles>>
       [] outcome = "error" -> SqsFail(call, SqsWrapped(call.op))
  /\ UNCHANGED <<nextCall, published, rmq, deliveries, backend, retired>>
  /\ AdapterFrame

\* the CreateQueueCommand returns
SqsCreateQueueReturn(call, outcome) ==
  /\ call \in adapterCalls /\ call.pc = "createQueue"
  /\ provider = "sqs"
  /\ outcome \in {"created", "error"}
  /\ Cardinality(cycles) < MaxCycles
  /\ IF outcome = "created"
     THEN /\ backend' = [backend EXCEPT !.queues = @ \cup {call.queueName}]
          /\ SqsProceed(call, "none")
     ELSE /\ SqsFail(call, "QueueCreationError")
          /\ UNCHANGED backend
  /\ UNCHANGED <<nextCall, published, rmq, deliveries, retired>>
  /\ AdapterFrame

\* SQS accepts the SendMessageCommand of a publish and stores the message
SqsAccept(call) ==
  /\ call \in adapterCalls /\ call.pc = "send" /\ call.op = "publish"
  /\ provider = "sqs"
  /\ call.queueName \in backend.queues
  /\ backend' = [backend EXCEPT !.ready = Append(@, SqsStored(call)),
                                !.accepted = Append(@, call.id)]
  /\ adapterCalls' = (adapterCalls \ {call}) \cup {[call EXCEPT !.pc = "accepted"]}
  /\ adapterOp' = AdapterOp("accept", "none", call.id, call.queueName, "none", 0, NoMessage, <<>>)
  /\ emitted' = <<>>
  /\ UNCHANGED <<nextCall, published, sqs, timers, cycles, rmq, deliveries, retired>>
  /\ AdapterFrame

\* the SendMessageCommand returns: publish returns, or fails in its catch block
SqsSendReturn(call, outcome) ==
  /\ call \in adapterCalls /\ call.op = "publish"
  /\ provider = "sqs"
  /\ \/ call.pc = "accepted" /\ outcome = "ok"
     \/ call.pc = "send" /\ outcome = "QueuePublishError"
     \/ call.pc = "send" /\ outcome = "QueueNotFoundError"
          /\ call.queueName \notin backend.queues
  /\ adapterCalls' = adapterCalls \ {call}
  /\ adapterOp' = AdapterOp("publishReturn", "none", call.id, call.queueName, outcome, 0,
                            NoMessage, <<>>)
  /\ emitted' = PublishOutcomeEvents(call.queueName, outcome)
  /\ UNCHANGED <<nextCall, published, sqs, timers, cycles, rmq, deliveries, backend, retired>>
  /\ AdapterFrame

\* unsubscribe(queueName) is called and returns
SqsUnsubscribeCall(queueName) ==
  LET r == SqsUnsubscribe(sqs, timers, queueName)
  IN /\ provider = "sqs"
     /\ nextCall < MaxCalls
     /\ nextCall' = nextCall + 1
     /\ sqs' = r.sqs
     /\ timers' = r.timers
     /\ retired' = retired \cup SqsLiveHandlers(queueName)
     /\ adapterOp' = AdapterOp("unsubscribeReturn", "unsubscribe", nextCall + 1, queueName, "ok", 0,
                               NoMessage, <<>>)
     /\ emitted' = <<>>
     /\ UNCHANGED <<adapterCalls, published, cycles, rmq, deliveries, backend>>
     /\ AdapterFrame

\* a tick of the schedule of subscription `sub`: pollMessages() up to its receive
SqsTick(sub, queueName) ==
  /\ provider = "sqs"
  /\ sub \in timers
  /\ queueName \in sqs.subscribedQueues
  /\ Cardinality(cycles) < MaxCycles
  /\ Cycle(sub, queueName, "receive", <<>>) \notin cycles
  /\ cycles' = SqsStartCycle(cycles, sqs, sub, queueName)
  /\ adapterOp' = AdapterOp("tick", "none", 0, queueName, "none", 0, NoMessage, <<>>)
  /\ emitted' = <<>>
  /\ UNCHANGED <<adapterCalls, nextCall, published, sqs, timers, rmq, deliveries, backend, retired>>
  /\ AdapterFrame

\* pollMessages goes on with `batch`: it invokes the handler with the head of
\* the batch and awaits it, or returns
SqsContinue(cycle, batch, kind, settled) ==
  IF SqsNextStep(sqs, cycle.queueName, batch) = "invoke"
  THEN /\ cycles' = (cycles \ {cycle}) \cup
                      {Cycle(cycle.sub, cycle.queueName, "handler", batch)}
       /\ adapterOp' = AdapterOp(kind, "none", 0, cycle.queueName, "none", cycle.sub,
                                 SqsQueueMessage(Head(batch)), settled)
       /\ emitted' = HandlerEvents(cycle.queueName, SqsQueueMessage(Head(batch)))
  ELSE /\ cycles' = cycles \ {cycle}
       /\ adapterOp' = AdapterOp(kind, "none", 0, cycle.queueName, "none", 0, NoMessage, settled)
       /\ emitted' = <<>>

\* the ReceiveMessageCommand of a cycle returns `n` messages, or fails
SqsReceiveReturn(cycle, n, ok) ==
  LET batch == SubSeq(backend.ready, 1, n)
  IN /\ cycle \in cycles /\ cycle.pc = "receive"
     /\ provider = "sqs"
     /\ n <= MaxNumberOfMessages
     /\ IF ok
        THEN /\ n <= Len(backend.ready)
             /\ cycle.queueName \in backend.queues
             /\ backend' = [backend EXCEPT
                              !.ready = SubSeq(@, n + 1, Len(@)),
                              !.taken = @ \cup {batch[i] : i \in 1..n}]
             /\ SqsContinue(cycle, batch, "receiveReturn", <<>>)
        ELSE /\ n = 0
             /\ cycles' = cycles \ {cycle}
             /\ adapterOp' = AdapterOp("receiveReturn", "none", 0, cycle.queueName, "logged", 0,
                                       NoMessage, <<>>)
             /\ emitted' = <<>>
             /\ UNCHANGED backend
     /\ UNCHANGED <<adapterCalls, nextCall, published, sqs, timers, rmq, deliveries, retired>>
     /\ AdapterFrame

\* a pollMessages that sends the DeleteMessageCommand whatever the handler did
SqsAfterHandler_DeletesAnyway(ok) == "delete"

\* pollMessages after `await options.handler(queueMessage)`: the statements
\* after the await send the message's delete; a rejection goes to the catch
\* block of the loop body, which logs
SqsAfterHandler(ok) == IF ok THEN "delete" ELSE "logged"

\* the handler's promise settles: on success the message's DeleteMessageCommand
\* is sent, on failure the error is logged and the loop goes on
SqsHandlerDone(cycle, ok) ==
  /\ cycle \in cycles /\ cycle.pc = "handler"
  /\ provider = "sqs"
  /\ IF SqsAfterHandler(ok) = "delete"
     THEN /\ cycles' = (cycles \ {cycle}) \cup {[cycle EXCEPT !.pc = "delete"]}
          /\ adapterOp' = AdapterOp(IF ok THEN "handlerDone" ELSE "handlerFailed", "none", 0,
                                    cycle.queueName, "none", 0, NoMessage,
                                    <<[op |-> "delete", by |-> Head(cycle.batch).by]>>)
          /\ emitted' = <<>>
     ELSE SqsContinue(cycle, Tail(cycle.batch), "handlerFailed", <<>>)
  /\ UNCHANGED <<adapterCalls, nextCall, published, sqs, timers, rmq, deliveries, backend, retired>>
  /\ AdapterFrame

\* the DeleteMessageCommand returns (a failure is logged): the loop goes on
SqsDeleteReturn(cycle, ok) ==
  /\ cycle \in cycles /\ cycle.pc = "delete"
  /\ provider = "sqs"
  /\ backend' = IF ok THEN [backend EXCEPT !.taken = @ \ {Head(cycle.batch)}] ELSE backend
  /\ SqsContinue(cycle, Tail(cycle.batch), "deleteReturn", <<>>)
  /\ UNCHANGED <<adapterCalls, nextCall, published, sqs, timers, rmq, deliveries, retired>>
  /\ AdapterFrame

\* SQS makes a received message that was not deleted visible again, once the
\* cycle that received it is over
SqsVisibilityTimeout(message) ==
  /\ provider = "sqs"
  /\ message \in backend.taken
  /\ \A c \in cycles : \A i \in 1..Len(c.batch) : c.batch[i] # message
  /\ backend' = [backend EXCEPT !.taken = @ \ {message}, !.ready = Append(@, message)]
  /\ adapterOp' = AdapterOp("visible", "none", 0, Undefined, "none", 0, NoMessage, <<>>)
  /\ emitted' = <<>>
  /\ UNCHANGED <<adapterCalls, nextCall, published, sqs, timers, cycles, rmq, deliveries, retired>>
  /\ AdapterFrame

\* the queue is deleted at SQS by another party, once
SqsQueueDeleted(queueName) ==
  /\ provider = "sqs"
  /\ ~backend.deleted
  /\ queueName \in backend.queues
  /\ backend' = [backend EXCEPT !.queues = @ \ {queueName}, !.ready = <<>>,
                                !.taken = {}, !.deleted = TRUE]
  /\ adapterOp' = AdapterOp("queueDeleted", "none", 0, queueName, "none", 0, NoMessage, <<>>)
  /\ emitted' = <<>>
  /\ UNCHANGED <<adapterCalls, nextCall, published, sqs, timers, cycles, rmq, deliveries, retired>>
  /\ AdapterFrame

NextSqs ==
  \/ \E q \in AdapterQueues : SqsCall("subscribe", q, NoMessage)
  \/ \E q \in AdapterQueues, m \in PublishInputs :
       SqsCall("publish", q, QueueMessage(Undefined, m.body, m.attributes))
  \/ \E c \in adapterCalls, o \in {"found", "notFound", "error"} : SqsGetQueueUrlReturn(c, o)
  \/ \E c \in adapterCalls, o \in {"created", "error"} : SqsCreateQueueReturn(c, o)
  \/ \E c \in adapterCalls : SqsAccept(c)
  \/ \E c \in adapterCalls, o \in {"ok", "QueuePublishError", "QueueNotFoundError"} :
       SqsSendReturn(c, o)
  \/ \E q \in AdapterQueues : SqsUnsubscribeCall(q)
  \/ \E t \in timers, q \in AdapterQueues : SqsTick(t, q)
  \/ \E c \in cycles, n \in 0..Len(backend.ready), ok \in BOOLEAN : SqsReceiveReturn(c, n, ok)
  \/ \E c \in cycles, ok \in BOOLEAN : SqsHandlerDone(c, ok)
  \/ \E c \in cycles, ok \in BOOLEAN : SqsDeleteReturn(c, ok)
  \/ \E m \in backend.taken : SqsVisibilityTimeout(m)
  \/ \E q \in AdapterQueues : SqsQueueDeleted(q)

SpecSqs == Init /\ [][NextSqs]_vars

\* onModuleDestroy(): the provider once every schedule is cleared and both the
\* schedule map and the set of subscribed names are emptied
SqsDestroy(st) ==
  [st EXCEPT !.pollingIntervals = [q \in AdapterQueues |-> 0],
             !.subscribedQueues = {},
             !.destroyed = TRUE]

\* onModuleDestroy() runs, once
SqsModuleDestroy ==
  /\ provider = "sqs"
  /\ ~sqs.destroyed
  /\ sqs' = SqsDestroy(sqs)
  /\ timers' = timers \ {sqs.pollingIntervals[q] : q \in AdapterQueues}
  /\ adapterOp' = AdapterOp("destroy", "destroy", 0, Undefined, "ok", 0, NoMessage, <<>>)
  /\ emitted' = <<>>
  /\ UNCHANGED <<adapterCalls, nextCall, published, cycles, rmq, deliveries, backend, retired>>
  /\ AdapterFrame

\* the provider until and after its teardown: no call is made once it has run
NextSqsTeardown ==
  \/ \E q \in AdapterQueues : ~sqs.destroyed /\ SqsCall("subscribe", q, NoMessage)
  \/ \E q \in AdapterQueues, m \in PublishInputs :
       ~sqs.destroyed /\ SqsCall("publish", q, QueueMessage(Undefined, m.body, m.attributes))
  \/ \E c \in adapterCalls, o \in {"found", "notFound", "error"} : SqsGetQueueUrlReturn(c, o)
  \/ \E c \in adapterCalls, o \in {"created", "error"} : SqsCreateQueueReturn(c, o)
  \/ \E c \in adapterCalls : SqsAccept(c)
  \/ \E c \in adapterCalls, o \in {"ok", "QueuePublishError", "QueueNotFoundError"} :
       SqsSendReturn(c, o)
  \/ \E t \in timers, q \in AdapterQueues : SqsTick(t, q)
  \/ \E c \in cycles, n \in 0..Len(backend.ready), ok \in BOOLEAN : SqsReceiveReturn(c, n, ok)
  \/ \E c \in cycles, ok \in BOOLEAN : SqsHandlerDone(c, ok)
  \/ \E c \in cycles, ok \in BOOLEAN : SqsDeleteReturn(c, ok)
  \/ SqsModuleDestroy

SpecSqsTeardown == Init /\ [][NextSqsTeardown]_vars

\* the provider polling: subscribe, unsubscribe and publish calls that succeed,
\* the poll cycles with their receives, handler invocations and deletes, and
\* SQS making an undeleted message visible again
NextSqsPolling ==
  \/ \E q \in AdapterQueues : nextCall < MaxPollingCalls /\ SqsCall("subscribe", q, NoMessage)
  \/ \E q \in AdapterQueues, m \in PublishInputs :
       /\ nextCall < MaxPollingCalls
       /\ SqsCall("publish", q, QueueMessage(Undefined, m.body, m.attributes))
  \/ \E c \in adapterCalls, o \in {"found", "notFound"} : SqsGetQueueUrlReturn(c, o)
  \/ \E c \in adapterCalls : SqsCreateQueueReturn(c, "created")
  \/ \E c \in adapterCalls : SqsAccept(c)
  \/ \E c \in adapterCalls : SqsSendReturn(c, "ok")
  \/ \E q \in AdapterQueues : nextCall < MaxPollingCalls /\ SqsUnsubscribeCall(q)
  \/ \E t \in timers, q \in AdapterQueues : SqsTick(t, q)
  \/ \E c \in cycles, n \in 0..Len(backend.ready) : SqsReceiveReturn(c, n, TRUE)
  \/ \E c \in cycles, ok \in BOOLEAN : SqsHandlerDone(c, ok)
  \/ \E c \in cycles, ok \in BOOLEAN : SqsDeleteReturn(c, ok)
  \/ \E m \in backend.taken : SqsVisibilityTimeout(m)

SpecSqsPolling == Init /\ [][NextSqsPolling]_vars

\* ------------------------------------------------------------ RabbitMqProvider
\* The provider is connected (onModuleInit has run): connection and channel
\* are open. A consumer tag is the id of the subscribe call that consumed.

\* publish's `headers: options.message.attributes || {}`, as the AMQP field
\* table the broker carries: every value with its type
RmqHeaders(attributes) ==
  [i \in 1..Len(attributes) |->
     <<attributes[i][1], [type |-> "string", value |-> attributes[i][2]]>>]

\* the frame sendToQueue writes: content, and the properties publish sets
RmqFrame(call) ==
  [by |-> call.id, input |-> call.message, content |-> <<"Buffer", call.message.body>>,
   properties |-> [persistent |-> TRUE, headers |-> RmqHeaders(call.message.attributes)],
   redelivered |-> FALSE]

\* the consume callback's decoding: string, number and boolean headers become
\* attributes, and the id is properties.messageId when that is a string
RmqQueueMessage(msg) ==
  LET kept == SelectSeq(msg.properties.headers,
                        LAMBDA e : e[2].type \in {"string", "number", "boolean"})
  IN QueueMessage(IF "messageId" \in DOMAIN msg.properties
                  THEN msg.properties.messageId ELSE NoId,
                  msg.content[2],
                  [i \in 1..Len(kept) |-> <<kept[i][1], kept[i][2].value>>])

\* a callback that acks before it awaits the handler and nacks on its failure
RmqSettlement_AckFirst(ok, msg) ==
  IF ok THEN <<[op |-> "ack", by |-> msg.by]>>
  ELSE <<[op |-> "ack", by |-> msg.by],
         [op |-> "nack", by |-> msg.by, allUpTo |-> FALSE, requeue |-> TRUE]>>

\* a callback that drops the message it failed on instead of requeueing it
RmqSettlement_NoRequeue(ok, msg) ==
  IF ok THEN <<[op |-> "ack", by |-> msg.by]>>
  ELSE <<[op |-> "nack", by |-> msg.by, allUpTo |-> FALSE, requeue |-> FALSE]>>

\* what the consume callback sends once the handler has settled
RmqSettlement(ok, msg) ==
  IF ok THEN <<[op |-> "ack", by |-> msg.by]>>
  ELSE <<[op |-> "nack", by |-> msg.by, allUpTo |-> FALSE, requeue |-> TRUE]>>

\* the broker's handling of the ack / nack frames of a delivery of `msg`
RECURSIVE BrokerSettle(_, _, _)
BrokerSettle(b, msg, settlement) ==
  IF settlement = <<>> \/ msg \notin b.taken THEN b
  ELSE LET s == Head(settlement)
           after == IF s.op = "nack" /\ s.requeue
                    THEN [b EXCEPT !.taken = @ \ {msg},
                                   !.ready = Append(@, [msg EXCEPT !.redelivered = TRUE])]
                    ELSE [b EXCEPT !.taken = @ \ {msg}]
       IN BrokerSettle(after, msg, Tail(settlement))

Consumer(consumerTag, queueName) == [consumerTag |-> consumerTag, queueName |-> queueName]
Delivery(consumerTag, queueName, msg) ==
  [consumerTag |-> consumerTag, queueName |-> queueName, msg |-> msg]

\* an unsubscribe that cancels whatever consumers.get returned
RmqHasConsumer_ChannelOnly(st, queueName) == TRUE

\* unsubscribe(queueName)'s test `consumer && this.channel`
RmqHasConsumer(st, queueName) == st.consumers[queueName] # 0

\* a call moves on to its next await
RmqAwait(call, pc, tag, called) ==
  /\ adapterCalls' = (adapterCalls \ {call}) \cup {[call EXCEPT !.pc = pc, !.tag = tag]}
  /\ adapterOp' = AdapterOp(pc, called, call.id, call.queueName, "none", 0, NoMessage, <<>>)
  /\ emitted' = <<>>

\* a call returns `returned`: "ok", or "Error" for the error it re-throws
RmqReturn(call, returned, called) ==
  /\ adapterCalls' = adapterCalls \ {call}
  /\ adapterOp' = AdapterOp(call.op \o "Return", called, call.id, call.queueName, returned, 0,
                            NoMessage, <<>>)
  /\ emitted' = IF call.op = "publish" THEN PublishOutcomeEvents(call.queueName, returned)
                ELSE <<>>

\* publish(options) / subscribe(options) is called: ensureChannel returns the
\* open channel and assertQueue is sent
RmqCall(op, queueName, message) ==
  LET call == AdapterCall(nextCall + 1, op, queueName, message, "assertQueue", 0)
  IN /\ provider = "rabbitmq"
     /\ nextCall < MaxCalls
     /\ op = "publish" => published < MaxPublishes
     /\ nextCall' = nextCall + 1
     /\ published' = IF op = "publish" THEN published + 1 ELSE published
     /\ RmqAwait(call, "assertQueue", 0, op)
     /\ UNCHANGED <<sqs, timers, cycles, rmq, deliveries, backend, retired>>
     /\ AdapterFrame

\* a publish that does not look at what sendToQueue returned
RmqPublishResult_IgnoresSent(sent) == "ok"

\* publish after sendToQueue: `if (!sent) throw new Error(...)`, re-thrown by
\* its catch block
RmqPublishResult(sent) == IF sent THEN "ok" ELSE "Error"

\* assertQueue returns. publish goes on to sendToQueue, which writes the frame
\* and returns `sent` at once (false: the channel's write buffer is full, which
\* backend.full records); subscribe cancels the recorded consumer of the name,
\* if any, and otherwise sends consume
RmqAssertQueueReturn(call, ok, sent) ==
  /\ call \in adapterCalls /\ call.pc = "assertQueue"
  /\ provider = "rabbitmq"
  /\ IF ~ok
     THEN /\ sent
          /\ RmqReturn(call, "Error", "none")
          /\ UNCHANGED backend
     ELSE IF call.op = "publish"
     THEN /\ backend' = [backend EXCEPT !.queues = @ \cup {call.queueName},
                                        !.wire = Append(@, RmqFrame(call)),
                                        !.full = ~sent]
          /\ RmqReturn(call, RmqPublishResult(sent), "none")
     ELSE /\ sent
          /\ backend' = [backend EXCEPT !.queues = @ \cup {call.queueName}]
          /\ IF RmqHasConsumer(rmq, call.queueName)
             THEN RmqAwait(call, "cancel", rmq.consumers[call.queueName], "none")
             ELSE RmqAwait(call, "consume", 0, "none")
  /\ UNCHANGED <<nextCall, published, sqs, timers, cycles, rmq, deliveries, retired>>
  /\ AdapterFrame

\* unsubscribe(queueName) is called: it cancels the recorded consumer of the
\* name, or returns at once when there is none
RmqUnsubscribeCall(queueName) ==
  LET call == AdapterCall(nextCall + 1, "unsubscribe", queueName, NoMessage, "cancel",
                          rmq.consumers[queueName])
  IN /\ provider = "rabbitmq"
     /\ nextCall < MaxCalls
     /\ nextCall' = nextCall + 1
     /\ IF RmqHasConsumer(rmq, queueName)
        THEN RmqAwait(call, "cancel", call.tag, "unsubscribe")
        ELSE RmqReturn(call, "ok", "unsubscribe")
     /\ UNCHANGED <<published, sqs, timers, cycles, rmq, deliveries, backend, retired>>
     /\ AdapterFrame

\* channel.cancel(consumerTag) returns: the record of the name is deleted, and
\* unsubscribe returns or subscribe goes on to consume; a failure is re-thrown
RmqCancelReturn(call, ok) ==
  /\ call \in adapterCalls /\ call.pc = "cancel"
  /\ provider = "rabbitmq"
  /\ IF ok
     THEN /\ backend' = [backend EXCEPT
                           !.consumers = @ \ {Consumer(call.tag, call.queueName)}]
          /\ rmq' = [rmq EXCEPT !.consumers[call.queueName] = 0]
          /\ IF call.op = "unsubscribe"
             THEN RmqReturn(call, "ok", "none")
             ELSE RmqAwait(call, "consume", 0, "none")
     ELSE /\ RmqReturn(call, "Error", "none")
          /\ UNCHANGED <<rmq, backend>>
  /\ UNCHANGED <<nextCall, published, sqs, timers, cycles, deliveries, retired>>
  /\ AdapterFrame

\* channel.consume returns: the broker has registered the consumer under a new
\* tag, which subscribe records for the name
RmqConsumeReturn(call, ok) ==
  /\ call \in adapterCalls /\ call.pc = "consume"
  /\ provider = "rabbitmq"
  /\ IF ok
     THEN /\ backend' = [backend EXCEPT
                           !.consumers = @ \cup {Consumer(call.id, call.queueName)}]
          /\ rmq' = [rmq EXCEPT !.consumers[call.queueName] = call.id]
          /\ RmqReturn(call, "ok", "none")
     ELSE /\ RmqReturn(call, "Error", "none")
          /\ UNCHANGED <<rmq, backend>>
  /\ UNCHANGED <<nextCall, published, sqs, timers, cycles, deliveries, retired>>
  /\ AdapterFrame

\* the broker takes the next published frame off the wire and enqueues it
RmqBrokerAccept ==
  /\ provider = "rabbitmq"
  /\ backend.wire # <<>>
  /\ backend' = [backend EXCEPT !.wire = Tail(@), !.ready = Append(@, Head(backend.wire)),
                                !.accepted = Append(@, Head(backend.wire).by)]
  /\ adapterOp' = AdapterOp("accept", "none", Head(backend.wire).by, Undefined, "none", 0,
                            NoMessage, <<>>)
  /\ emitted' = <<>>
  /\ UNCHANGED <<adapterCalls, nextCall, published, sqs, timers, cycles, rmq, deliveries,
                 retired>>
  /\ AdapterFrame

\* the broker delivers the head of the queue to a registered consumer: the
\* consume callback decodes it and invokes the handler
RmqDeliver(consumer) ==
  LET msg == Head(backend.ready)
  IN /\ provider = "rabbitmq"
     /\ consumer \in backend.consumers
     /\ backend.ready # <<>>
     /\ backend' = [backend EXCEPT !.ready = Tail(@), !.taken = @ \cup {msg}]
     /\ deliveries' = deliveries \cup
                        {Delivery(consumer.consumerTag, consumer.queueName, msg)}
     /\ adapterOp' = AdapterOp("deliver", "none", 0, consumer.queueName, "none",
                               consumer.consumerTag, RmqQueueMessage(msg), <<>>)
     /\ emitted' = HandlerEvents(consumer.queueName, RmqQueueMessage(msg))
     /\ UNCHANGED <<adapterCalls, nextCall, published, sqs, timers, cycles, rmq, retired>>
     /\ AdapterFrame

\* the handler's promise settles: the callback acks the message, or nacks it
\* for requeueing, and the broker acts on that
RmqHandlerDone(delivery, ok) ==
  LET settled == RmqSettlement(ok, delivery.msg)
  IN /\ delivery \in deliveries
     /\ provider = "rabbitmq"
     /\ deliveries' = deliveries \ {delivery}
     /\ backend' = BrokerSettle(backend, delivery.msg, settled)
     /\ adapterOp' = AdapterOp(IF ok THEN "handlerDone" ELSE "handlerFailed", "none", 0,
                               delivery.queueName, "none", 0,
                               RmqQueueMessage(delivery.msg), settled)
     /\ emitted' = <<>>
     /\ UNCHANGED <<adapterCalls, nextCall, published, sqs, timers, cycles, rmq, retired>>
     /\ AdapterFrame

\* the broker cancels a consumer (its queue was deleted, say): amqplib calls the
\* consume callback with null, and the callback returns at `if (!msg)`
RmqDeliverNull(consumer) ==
  /\ provider = "rabbitmq"
  /\ consumer \in backend.consumers
  /\ backend' = [backend EXCEPT !.consumers = @ \ {consumer}]
  /\ adapterOp' = AdapterOp("deliverNull", "none", 0, consumer.queueName, "none", 0,
                            NoMessage, <<>>)
  /\ emitted' = <<>>
  /\ UNCHANGED <<adapterCalls, nextCall, published, sqs, timers, cycles, rmq, deliveries,
                 retired>>
  /\ AdapterFrame

NextRabbitMq ==
  \/ \E q \in AdapterQueues : RmqCall("subscribe", q, NoMessage)
  \/ \E q \in AdapterQueues, m \in PublishInputs :
       RmqCall("publish", q, QueueMessage(Undefined, m.body, m.attributes))
  \/ \E c \in adapterCalls, ok \in BOOLEAN, sent \in BOOLEAN : RmqAssertQueueReturn(c, ok, sent)
  \/ \E q \in AdapterQueues : RmqUnsubscribeCall(q)
  \/ \E c \in adapterCalls, ok \in BOOLEAN : RmqCancelReturn(c, ok)
  \/ \E c \in adapterCalls, ok \in BOOLEAN : RmqConsumeReturn(c, ok)
  \/ RmqBrokerAccept
  \/ \E c \in backend.consumers : RmqDeliver(c)
  \/ \E d \in deliveries, ok \in BOOLEAN : RmqHandlerDone(d, ok)

SpecRabbitMq == Init /\ [][NextRabbitMq]_vars

\* the provider called with subscribe only
NextRabbitMqSubscribe ==
  \/ \E q \in AdapterQueues : RmqCall("subscribe", q, NoMessage)
  \/ \E c \in adapterCalls, ok \in BOOLEAN : RmqAssertQueueReturn(c, ok, TRUE)
  \/ \E c \in adapterCalls, ok \in BOOLEAN : RmqCancelReturn(c, ok)
  \/ \E c \in adapterCalls, ok \in BOOLEAN : RmqConsumeReturn(c, ok)

SpecRabbitMqSubscribe == Init /\ [][NextRabbitMqSubscribe]_vars

\* the provider consuming: subscribe and publish calls that succeed, the
\* broker's deliveries, null deliveries included, and the handler's outcomes
NextRabbitMqDeliveries ==
  \/ \E q \in AdapterQueues : RmqCall("subscribe", q, NoMessage)
  \/ \E q \in AdapterQueues, m \in PublishInputs :
       RmqCall("publish", q, QueueMessage(Undefined, m.body, m.attributes))
  \/ \E c \in adapterCalls : RmqAssertQueueReturn(c, TRUE, TRUE)
  \/ \E c \in adapterCalls : RmqCancelReturn(c, TRUE)
  \/ \E c \in adapterCalls : RmqConsumeReturn(c, TRUE)
  \/ RmqBrokerAccept
  \/ \E c \in backend.consumers : RmqDeliver(c)
  \/ \E c \in backend.consumers : RmqDeliverNull(c)
  \/ \E d \in deliveries, ok \in BOOLEAN : RmqHandlerDone(d, ok)

SpecRabbitMqDeliveries == Init /\ [][NextRabbitMqDeliveries]_vars

\* either provider called with subscribe and unsubscribe only, its queue empty
NextSubscriptions ==
  \/ \E q \in AdapterQueues : SqsCall("subscribe", q, NoMessage)
  \/ \E c \in adapterCalls, o \in {"found", "notFound", "error"} : SqsGetQueueUrlReturn(c, o)
  \/ \E c \in adapterCalls, o \in {"created", "error"} : SqsCreateQueueReturn(c, o)
  \/ \E q \in AdapterQueues : SqsUnsubscribeCall(q)
  \/ \E t \in timers, q \in AdapterQueues : SqsTick(t, q)
  \/ \E c \in cycles, ok \in BOOLEAN : SqsReceiveReturn(c, 0, ok)
  \/ \E q \in AdapterQueues : RmqCall("subscribe", q, NoMessage)
  \/ \E c \in adapterCalls, ok \in BOOLEAN : RmqAssertQueueReturn(c, ok, TRUE)
  \/ \E q \in AdapterQueues : RmqUnsubscribeCall(q)
  \/ \E c \in adapterCalls, ok \in BOOLEAN : RmqCancelReturn(c, ok)
  \/ \E c \in adapterCalls, ok \in BOOLEAN : RmqConsumeReturn(c, ok)

SpecSubscriptions == Init /\ [][NextSubscriptions]_vars

\* ------------------------------------------- RabbitMqProvider's connection
\* The provider from its construction: onModuleInit, ensureChannel, connect,
\* the connection's 'close' / 'error' events and onModuleDestroy. rmq.held
\* records the channel each call got from ensureChannel; rmq.teardown is the
\* await disconnect() is at, rmq.cancelling the consumer tag its loop is
\* cancelling, rmq.failed the steps of it that failed.

\* an ensureChannel that never connects
EnsureChannel_NeverConnects(st) == "channel"

\* ensureChannel's test `!this.connection || !this.channel`: "connect" when it
\* calls connect(), "channel" when it returns this.channel at once
EnsureChannel(st) ==
  IF st.connection = NoConnection \/ st.channel = NoConnection THEN "connect" ELSE "channel"

ChannelOf(call) == CHOOSE ch \in {h[2] : h \in {g \in rmq.held : g[1] = call.id}} : TRUE

\* the consumers the broker holds on a channel
ConsumersOn(channel) ==
  {c \in backend.consumers : <<c.consumerTag, channel>> \in rmq.held}

\* the broker's state once a connection is closed: its channel and the
\* consumers on it are gone
BrokerClosed(b, conn) ==
  [b EXCEPT !.connections = @ \ {conn}, !.channels = @ \ {conn},
            !.consumers = @ \ ConsumersOn(conn)]

\* onModuleInit(): connect() is called, once, before any other call
RmqModuleInit ==
  LET call == AdapterCall(nextCall + 1, "init", Undefined, NoMessage, "connect", 0)
  IN /\ provider = "rabbitmq"
     /\ nextCall = 0
     /\ nextCall' = nextCall + 1
     /\ RmqAwait(call, "connect", 0, "init")
     /\ UNCHANGED <<published, sqs, timers, cycles, rmq, deliveries, backend, retired>>
     /\ AdapterFrame

\* publish(options) / subscribe(options) is called, not while onModuleInit is
\* awaited: ensureChannel either calls connect() or returns this.channel, on
\* which assertQueue is sent
RmqEnsureChannelCall(op, queueName, message) ==
  LET id == nextCall + 1
      call == AdapterCall(id, op, queueName, message, "connect", 0)
  IN /\ provider = "rabbitmq"
     /\ nextCall < MaxCalls
     /\ op = "publish" => published < MaxPublishes
     /\ Cardinality(adapterCalls) < MaxConcurrent
     /\ \A c \in adapterCalls : c.op # "init"
     /\ rmq.teardown = "none"
     /\ nextCall' = id
     /\ published' = IF op = "publish" THEN published + 1 ELSE published
     /\ IF EnsureChannel(rmq) = "connect"
        THEN /\ RmqAwait(call, "connect", 0, op)
             /\ UNCHANGED rmq
        ELSE /\ RmqAwait(call, "assertQueue", 0, op)
             /\ rmq' = [rmq EXCEPT !.held = @ \cup {<<id, rmq.channel>>}]
     /\ UNCHANGED <<sqs, timers, cycles, deliveries, backend, retired>>
     /\ AdapterFrame

\* amqp.connect returns: connect() stores the connection and awaits
\* createChannel; a failure is logged and re-thrown to the caller
RmqConnectReturn(call, ok) ==
  /\ call \in adapterCalls /\ call.pc = "connect"
  /\ provider = "rabbitmq"
  /\ IF ok
     THEN /\ backend' = [backend EXCEPT !.connections = @ \cup {call.id}]
          /\ rmq' = [rmq EXCEPT !.connection = call.id]
          /\ RmqAwait(call, "createChannel", 0, "none")
     ELSE /\ RmqReturn(call, "Error", "none")
          /\ UNCHANGED <<rmq, backend>>
  /\ UNCHANGED <<nextCall, published, sqs, timers, cycles, deliveries, retired>>
  /\ AdapterFrame

\* conn.createChannel returns: connect() stores the channel, registers the
\* observers and returns; ensureChannel returns this.channel, and assertQueue
\* is sent on it. A failure is logged and re-thrown to the caller
RmqCreateChannelReturn(call, ok) ==
  LET st == [rmq EXCEPT !.channel = call.id]
  IN /\ call \in adapterCalls /\ call.pc = "createChannel"
     /\ provider = "rabbitmq"
     /\ ok => call.id \in backend.connections
     /\ IF ~ok
        THEN /\ RmqReturn(call, "Error", "none")
             /\ UNCHANGED <<rmq, backend>>
        ELSE /\ backend' = [backend EXCEPT !.channels = @ \cup {call.id}]
             /\ IF call.op = "init"
                THEN /\ RmqReturn(call, "ok", "none")
                     /\ rmq' = st
                ELSE IF st.channel = NoConnection
                THEN /\ RmqReturn(call, "Error", "none")
                     /\ rmq' = st
                ELSE /\ RmqAwait(call, "assertQueue", 0, "none")
                     /\ rmq' = [st EXCEPT !.held = @ \cup {<<call.id, st.channel>>}]
     /\ UNCHANGED <<nextCall, published, sqs, timers, cycles, deliveries, retired>>
     /\ AdapterFrame

\* the call's frames reach the broker only on an open channel
RmqOnChannel(channel, ok) == ok => channel \in backend.channels

\* assertQueue returns on the channel ensureChannel returned
RmqChannelAssertQueueReturn(call, ok, sent) ==
  /\ call \in adapterCalls /\ call.pc = "assertQueue"
  /\ RmqOnChannel(ChannelOf(call), ok)
  /\ RmqAssertQueueReturn(call, ok, sent)

\* this.channel.cancel returns (unsubscribe reads this.channel)
RmqChannelCancelReturn(call, ok) ==
  /\ call \in adapterCalls /\ call.pc = "cancel"
  /\ RmqOnChannel(rmq.channel, ok)
  /\ RmqCancelReturn(call, ok)

\* channel.consume returns on the channel ensureChannel returned
RmqChannelConsumeReturn(call, ok) ==
  /\ call \in adapterCalls /\ call.pc = "consume"
  /\ RmqOnChannel(ChannelOf(call), ok)
  /\ RmqConsumeReturn(call, ok)

\* a connection emits 'error' and 'close': the observers connect() registered
\* log, and the provider's fields stay as they are
RmqConnectionClosed(conn) ==
  /\ provider = "rabbitmq"
  /\ conn \in backend.connections
  /\ conn \in backend.channels
  /\ backend' = BrokerClosed(backend, conn)
  /\ adapterOp' = AdapterOp("closed", "none", conn, Undefined, "logged", 0, NoMessage, <<>>)
  /\ emitted' = <<>>
  /\ UNCHANGED <<adapterCalls, nextCall, published, sqs, timers, cycles, rmq, deliveries,
                 retired>>
  /\ AdapterFrame

\* disconnect() at `if (this.connection) await this.connection.close()`:
\* close() is awaited, or throws at once on a connection that is closed, which
\* the outer catch logs
RmqCloseConnection(st, b) ==
  IF st.connection = NoConnection THEN [st EXCEPT !.teardown = "done"]
  ELSE IF st.connection \in b.connections THEN [st EXCEPT !.teardown = "closeConnection"]
  ELSE [st EXCEPT !.teardown = "done", !.failed = @ \cup {"closeConnection"}]

\* disconnect() at `if (this.channel) await this.channel.close()`, likewise
RmqCloseChannel(st, b) ==
  IF st.channel = NoConnection THEN RmqCloseConnection(st, b)
  ELSE IF st.channel \in b.channels THEN [st EXCEPT !.teardown = "closeChannel"]
  ELSE [st EXCEPT !.teardown = "done", !.failed = @ \cup {"closeChannel"}]

\* a disconnect() that leaves through its outer catch when a cancel fails
RmqAfterCancel_Rethrows(st, ok, b) ==
  IF ok
  THEN RmqCloseChannel([st EXCEPT !.consumers = [q \in AdapterQueues |-> 0]], b)
  ELSE [st EXCEPT !.teardown = "done", !.failed = @ \cup {"cancel"}]

\* disconnect() after its loop over the consumers, whose last cancel returned
\* `ok` (a failure is logged inside the loop): the registry is cleared and
\* disconnect goes on to close the channel
RmqAfterCancel(st, ok, b) ==
  RmqCloseChannel([st EXCEPT !.consumers = [q \in AdapterQueues |-> 0],
                             !.failed = IF ok THEN @ ELSE @ \cup {"cancel"}], b)

\* the broker once the close that disconnect() now awaits is sent: a closing
\* channel or connection takes no more frames
BrokerClosing(b, st) ==
  IF st.teardown = "closeChannel"
  THEN [b EXCEPT !.channels = @ \ {st.channel}, !.consumers = @ \ ConsumersOn(st.channel)]
  ELSE IF st.teardown = "closeConnection" THEN BrokerClosed(b, st.connection)
  ELSE b

\* a turn of disconnect() that leaves the provider in state `st`, the broker
\* having been in state `b`
RmqDisconnectTurn(st, b, called) ==
  /\ rmq' = st
  /\ backend' = BrokerClosing(b, st)
  /\ adapterOp' = AdapterOp(IF st.teardown = "done" THEN "destroyReturn" ELSE st.teardown,
                            called, 0, Undefined,
                            IF st.teardown = "done" THEN "ok" ELSE "none", 0, NoMessage, <<>>)
  /\ emitted' = <<>>
  /\ UNCHANGED <<adapterCalls, nextCall, published, sqs, timers, cycles, deliveries, retired>>
  /\ AdapterFrame

\* onModuleDestroy(): disconnect() runs up to its first await
RmqModuleDestroy ==
  /\ provider = "rabbitmq"
  /\ rmq.teardown = "none"
  /\ IF (\E q \in AdapterQueues : rmq.consumers[q] # 0) /\ rmq.channel # NoConnection
     THEN RmqDisconnectTurn([rmq EXCEPT !.teardown = "cancel",
                                        !.cancelling = CHOOSE t \in {rmq.consumers[q] :
                                                          q \in AdapterQueues} : t # 0],
                            backend, "destroy")
     ELSE RmqDisconnectTurn(RmqAfterCancel(rmq, TRUE, backend), backend, "destroy")

\* the cancel of the loop returns
RmqDisconnectCancelReturn(ok) ==
  LET b == IF ok
           THEN [backend EXCEPT !.consumers = {c \in @ : c.consumerTag # rmq.cancelling}]
           ELSE backend
  IN /\ provider = "rabbitmq"
     /\ rmq.teardown = "cancel"
     /\ RmqOnChannel(rmq.channel, ok)
     /\ RmqDisconnectTurn(RmqAfterCancel(rmq, ok, b), b, "none")

\* this.channel.close() returns: the connection is closed next; a failure
\* leaves through the outer catch, which logs
RmqDisconnectChannelReturn(ok) ==
  /\ provider = "rabbitmq"
  /\ rmq.teardown = "closeChannel"
  /\ IF ok
     THEN RmqDisconnectTurn(RmqCloseConnection(rmq, backend), backend, "none")
     ELSE RmqDisconnectTurn([rmq EXCEPT !.teardown = "done",
                                        !.failed = @ \cup {"closeChannel"}], backend, "none")

\* this.connection.close() returns, or fails and is logged: disconnect returns
RmqDisconnectConnectionReturn(ok) ==
  /\ provider = "rabbitmq"
  /\ rmq.teardown = "closeConnection"
  /\ RmqDisconnectTurn([rmq EXCEPT !.teardown = "done",
                                   !.failed = IF ok THEN @ ELSE @ \cup {"closeConnection"}],
                       backend, "none")

\* the provider as constructed: no connection, no channel
InitUnconnected ==
  /\ provider = "rabbitmq"
  /\ ConstructedOn(NoConnection)

NextRabbitMqConnection ==
  \/ RmqModuleInit
  \/ \E q \in AdapterQueues : RmqEnsureChannelCall("subscribe", q, NoMessage)
  \/ \E q \in AdapterQueues, m \in PublishInputs :
       RmqEnsureChannelCall("publish", q, QueueMessage(Undefined, m.body, m.attributes))
  \/ \E c \in adapterCalls, ok \in BOOLEAN : RmqConnectReturn(c, ok)
  \/ \E c \in adapterCalls, ok \in BOOLEAN : RmqCreateChannelReturn(c, ok)
  \/ \E c \in adapterCalls, ok \in BOOLEAN : RmqChannelAssertQueueReturn(c, ok, TRUE)
  \/ \E c \in adapterCalls, ok \in BOOLEAN : RmqChannelCancelReturn(c, ok)
  \/ \E c \in adapterCalls, ok \in BOOLEAN : RmqChannelConsumeReturn(c, ok)
  \/ \E conn \in backend.connections : RmqConnectionClosed(conn)

SpecRabbitMqConnection == InitUnconnected /\ [][NextRabbitMqConnection]_vars

\* the provider's calls with every connection staying open once established
NextRabbitMqLazy ==
  \/ RmqModuleInit
  \/ \E q \in AdapterQueues :
       nextCall < MaxLazyCalls /\ RmqEnsureChannelCall("subscribe", q, NoMessage)
  \/ \E q \in AdapterQueues, m \in PublishInputs :
       /\ nextCall < MaxLazyCalls
       /\ RmqEnsureChannelCall("publish", q, QueueMessage(Undefined, m.body, m.attributes))
  \/ \E c \in adapterCalls, ok \in BOOLEAN : RmqConnectReturn(c, ok)
  \/ \E c \in adapterCalls, ok \in BOOLEAN : RmqCreateChannelReturn(c, ok)
  \/ \E c \in adapterCalls, ok \in BOOLEAN : RmqChannelAssertQueueReturn(c, ok, TRUE)
  \/ \E c \in adapterCalls, ok \in BOOLEAN : RmqChannelCancelReturn(c, ok)
  \/ \E c \in adapterCalls, ok \in BOOLEAN : RmqChannelConsumeReturn(c, ok)

SpecRabbitMqLazy == InitUnconnected /\ [][NextRabbitMqLazy]_vars

\* the connected provider, subscribed to and torn down
NextRabbitMqTeardown ==
  \/ \E q \in AdapterQueues : RmqEnsureChannelCall("subscribe", q, NoMessage)
  \/ \E c \in adapterCalls, ok \in BOOLEAN : RmqChannelAssertQueueReturn(c, ok, TRUE)
  \/ \E c \in adapterCalls, ok \in BOOLEAN : RmqChannelCancelReturn(c, ok)
  \/ \E c \in adapterCalls, ok \in BOOLEAN : RmqChannelConsumeReturn(c, ok)
  \/ \E conn \in backend.connections : RmqConnectionClosed(conn)
  \/ RmqModuleDestroy
  \/ \E ok \in BOOLEAN : RmqDisconnectCancelReturn(ok)
  \/ \E ok \in BOOLEAN : RmqDisconnectChannelReturn(ok)
  \/ \E ok \in BOOLEAN : RmqDisconnectConnectionReturn(ok)

SpecRabbitMqTeardown == Init /\ [][NextRabbitMqTeardown]_vars

\* --------------------------------------------- the gateway on its adapter
\* The Facade's promise of a subscribe or unsubscribe resolves in the turn in
\* which the bound adapter's call returns: the adapter is then in the state
\* its subscribe / unsubscribe leaves.

\* the adapter holds a subscription for the name
HoldsSubscription(queueName) ==
  IF provider = "sqs" THEN queueName \in sqs.subscribedQueues
  ELSE rmq.consumers[queueName] # 0

\* the bound adapter's subscribe(queueName) has returned successfully
AdapterSubscribed(queueName) ==
  LET id == nextCall + 1
      r == SqsInstall([sqs EXCEPT !.queueUrls = @ \cup {queueName}], timers, id, queueName)
      existing == Consumer(rmq.consumers[queueName], queueName)
  IN /\ nextCall < MaxCalls
     /\ nextCall' = id
     /\ adapterOp' = AdapterOp("subscribeReturn", "none", id, queueName, "ok", 0,
                               NoMessage, <<>>)
     /\ IF provider = "sqs"
        THEN /\ Cardinality(cycles) < MaxCycles
             /\ sqs' = r.sqs
             /\ timers' = r.timers
             /\ cycles' = SqsStartCycle(cycles, r.sqs, id, queueName)
             /\ backend' = [backend EXCEPT !.queues = @ \cup {queueName}]
             /\ UNCHANGED rmq
        ELSE /\ rmq' = [rmq EXCEPT !.consumers[queueName] = id]
             /\ backend' = [backend EXCEPT
                              !.queues = @ \cup {queueName},
                              !.consumers = (@ \ {existing}) \cup {Consumer(id, queueName)}]
             /\ UNCHANGED <<sqs, timers, cycles>>
     /\ UNCHANGED <<adapterCalls, published, deliveries, retired>>

\* the bound adapter's unsubscribe(queueName) has returned successfully
AdapterUnsubscribed(queueName) ==
  LET r == SqsUnsubscribe(sqs, timers, queueName)
      existing == Consumer(rmq.consumers[queueName], queueName)
  IN /\ adapterOp' = AdapterOp("unsubscribeReturn", "none", nextCall, queueName, "ok", 0,
                               NoMessage, <<>>)
     /\ IF provider = "sqs"
        THEN /\ sqs' = r.sqs
             /\ timers' = r.timers
             /\ UNCHANGED <<rmq, backend>>
        ELSE /\ rmq' = [rmq EXCEPT !.consumers[queueName] = 0]
             /\ backend' = [backend EXCEPT !.consumers = @ \ {existing}]
             /\ UNCHANGED <<sqs, timers>>
     /\ UNCHANGED <<adapterCalls, nextCall, published, cycles, deliveries, retired>>

\* the Facade's subscribe resolved, on the bound adapter
BoundSubscribeResolve(p) ==
  /\ SubscribeResolveTurn(p)
  /\ AdapterSubscribed(p.queueName)

\* the Facade's unsubscribe resolved, on the bound adapter
BoundUnsubscribeResolve(p) ==
  /\ UnsubscribeResolveTurn(p)
  /\ AdapterUnsubscribed(p.queueName)

\* the registry's operations on one queue name, with the adapter behind them
NextBound ==
  \/ \E c \in Clients : HandleConnection(c)
  \/ \E c \in Clients : HandleDisconnect(c)
  \/ \E c \in Clients, q \in AdapterQueues : HandleSubscribe(c, [queueName |-> q])
  \/ \E p \in Settled("subscribe") : BoundSubscribeResolve(p)
  \/ \E p \in Settled("subscribe"), k \in SubscribeErrors(provider) : SubscribeReject(p, k)
  \/ \E c \in Clients, q \in AdapterQueues : HandleUnsubscribe(c, [queueName |-> q])
  \/ \E p \in Settled("unsubscribe") : BoundUnsubscribeResolve(p)
  \/ \E p \in Settled("unsubscribe"), k \in UnsubscribeErrors(provider) : UnsubscribeReject(p, k)
  \/ \E t \in timers, q \in AdapterQueues : SqsTick(t, q)
  \/ \E c \in cycles, ok \in BOOLEAN : SqsReceiveReturn(c, 0, ok)

SpecBound == Init /\ [][NextBound]_vars

\* ------------------------------------------- messages through the gateway
\* The handler the gateway handed to the Facade is the one the adapter invokes:
\* it reads the registry as it is at the time of the invocation.

\* the gateway's handler is invoked with a message (lines 83-98)
HandlerInvoked(queueName, queueMessage) ==
  /\ emitted' = FanOutHandler(clientSubscriptions, sockets, queueName, queueMessage)
  /\ lastOp' = Op("fanout", Undefined, queueName, queueMessage.body, Undefined, "none", FALSE)
  /\ facadeCalls' = <<>>
  /\ visited' = <<>>
  /\ UNCHANGED <<provider, sockets, gone, clientSubscriptions, queueHandlers,
                 handed, inflight, watch>>

\* a publish to the queue has returned successfully while the watched
\* connection is subscribed: the backend holds the message
BoundPublished(queueName, m) ==
  LET id == nextCall + 1
      call == AdapterCall(id, "publish", queueName,
                          QueueMessage(Undefined, m.body, m.attributes), "send", 0)
  IN /\ nextCall < MaxCalls
     /\ published < MaxPublishes
     /\ WatchedClient \in sockets \cap Interested(clientSubscriptions, queueName)
     /\ nextCall' = id
     /\ published' = published + 1
     /\ backend' = [backend EXCEPT
                      !.queues = @ \cup {queueName},
                      !.ready = Append(@, IF provider = "sqs" THEN SqsStored(call)
                                          ELSE RmqFrame(call)),
                      !.accepted = Append(@, id)]
     /\ adapterOp' = AdapterOp("publishReturn", "none", id, queueName, "ok", 0, NoMessage, <<>>)
     /\ emitted' = <<>>
     /\ UNCHANGED <<adapterCalls, sqs, timers, cycles, rmq, deliveries, retired>>
     /\ AdapterFrame

\* the ReceiveMessageCommand of a cycle returns the head of the queue and
\* pollMessages invokes the handler with it
BoundReceive(cycle) ==
  LET batch == SubSeq(backend.ready, 1, 1)
  IN /\ provider = "sqs"
     /\ cycle \in cycles /\ cycle.pc = "receive"
     /\ backend.ready # <<>>
     /\ cycle.queueName \in backend.queues
     /\ SqsNextStep(sqs, cycle.queueName, batch) = "invoke"
     /\ backend' = [backend EXCEPT !.ready = Tail(@), !.taken = @ \cup {Head(batch)}]
     /\ cycles' = (cycles \ {cycle}) \cup {Cycle(cycle.sub, cycle.queueName, "handler", batch)}
     /\ adapterOp' = AdapterOp("receiveReturn", "none", 0, cycle.queueName, "none", cycle.sub,
                               SqsQueueMessage(Head(batch)), <<>>)
     /\ HandlerInvoked(cycle.queueName, SqsQueueMessage(Head(batch)))
     /\ UNCHANGED <<adapterCalls, nextCall, published, sqs, timers, rmq, deliveries, retired>>

\* the broker delivers the head of the queue to a registered consumer and the
\* consume callback invokes the handler with it
BoundDeliver(consumer) ==
  LET msg == Head(backend.ready)
  IN /\ provider = "rabbitmq"
     /\ consumer \in backend.consumers
     /\ backend.ready # <<>>
     /\ backend' = [backend EXCEPT !.ready = Tail(@), !.taken = @ \cup {msg}]
     /\ deliveries' = deliveries \cup
                        {Delivery(consumer.consumerTag, consumer.queueName, msg)}
     /\ adapterOp' = AdapterOp("deliver", "none", 0, consumer.queueName, "none",
                               consumer.consumerTag, RmqQueueMessage(msg), <<>>)
     /\ HandlerInvoked(consumer.queueName, RmqQueueMessage(msg))
     /\ UNCHANGED <<adapterCalls, nextCall, published, sqs, timers, cycles, rmq, retired>>

\* the Facade's pending calls settle
FacadeSettles ==
  \/ \E p \in Settled("subscribe") : BoundSubscribeResolve(p)
  \/ \E p \in Settled("subscribe"), k \in SubscribeErrors(provider) : SubscribeReject(p, k)
  \/ \E p \in Settled("unsubscribe") : BoundUnsubscribeResolve(p)
  \/ \E p \in Settled("unsubscribe"), k \in UnsubscribeErrors(provider) : UnsubscribeReject(p, k)

\* the schedules fire
TimersFire == \E t \in timers, q \in AdapterQueues : SqsTick(t, q)

\* the backend hands a waiting message to a subscription it knows
BackendDelivers ==
  \/ \E c \in cycles : BoundReceive(c)
  \/ \E c \in backend.consumers : BoundDeliver(c)

\* the callbacks that follow an invocation of the handler run
CallbacksRun ==
  \/ \E c \in cycles : SqsHandlerDone(c, TRUE)
  \/ \E c \in cycles : SqsDeleteReturn(c, TRUE)
  \/ \E d \in deliveries : RmqHandlerDone(d, TRUE)

NextMessages ==
  \/ \E c \in Clients : HandleConnection(c)
  \/ \E c \in Clients : HandleDisconnect(c)
  \/ \E c \in Clients, q \in AdapterQueues : HandleSubscribe(c, [queueName |-> q])
  \/ \E c \in Clients, q \in AdapterQueues : HandleUnsubscribe(c, [queueName |-> q])
  \/ FacadeSettles
  \/ \E q \in AdapterQueues, m \in PublishInputs : BoundPublished(q, m)
  \/ TimersFire
  \/ \E c \in cycles : SqsReceiveReturn(c, 0, TRUE)
  \/ BackendDelivers
  \/ CallbacksRun

\* the backend eventually delivers, and timers and callbacks are scheduled
\* fairly
SpecMessages ==
  /\ Init
  /\ [][NextMessages]_vars
  /\ WF_vars(FacadeSettles)
  /\ WF_vars(TimersFire)
  /\ SF_vars(BackendDelivers)
  /\ WF_vars(CallbacksRun)

\* ------------------------------------------------------------ claims
Quiescent == inflight = EmptyBag

\* the 'queue:message' events of a turn that carry {queueName, message} to a client
Deliveries(events, clientId, queueName, message) ==
  {i \in 1..Len(events) :
     events[i] = Ev(clientId, "queue:message", queueName, message, NoDetails)}

CallCount(calls, op, queueName) ==
  Cardinality({i \in 1..Len(calls) : calls[i].op = op /\ calls[i].queueName = queueName})

\* C1: once every Facade call has settled, a queue name is a key of the handler
\* map if and only if at least one connection's interest-set contains it.
C1_HandlerIffInterest ==
  Quiescent =>
    \A q \in Queues : q \in queueHandlers <=> Interested(clientSubscriptions, q) # {}

\* C2: a subscribe request for a queue that has a registered handler calls no
\* Facade subscribe and leaves the handler registered; the Facade's subscribe
\* for Q is called in a turn exactly when that turn registers Q's handler
\* (Q goes from Unregistered to Registered), and then once.
C2_OneFacadeSubscribePerRegistration ==
  [][\A q \in Queues :
       /\ (q \in queueHandlers /\ lastOp'.kind = "subscribe" /\ lastOp'.queueName = q)
            => (CallCount(facadeCalls', "subscribe", q) = 0 /\ q \in queueHandlers')
       /\ CallCount(facadeCalls', "subscribe", q) =
            (IF q \notin queueHandlers /\ q \in queueHandlers' THEN 1 ELSE 0)]_vars

\* a further connection joined a queue whose handler was registered
C2_Witness ==
  /\ lastOp.kind = "subscribe" /\ lastOp.path = "joined"
  /\ Cardinality(Interested(clientSubscriptions, lastOp.queueName)) = 2
  /\ facadeCalls = <<>>

\* C3: an invocation of Q's fan-out handler with a message emits exactly one
\* 'queue:message' event {queueName: Q, message} to every connection whose
\* interest-set contains Q, none to any other connection, and nothing else.
C3_FanOutOncePerSubscriber ==
  lastOp.kind = "fanout" =>
    /\ \A c \in Clients :
         Cardinality(Deliveries(emitted, c, lastOp.queueName, lastOp.message)) =
           (IF c \in Interested(clientSubscriptions, lastOp.queueName) THEN 1 ELSE 0)
    /\ Len(emitted) = Cardinality(Interested(clientSubscriptions, lastOp.queueName))

\* a fan-out with two subscribed connections
C3_Witness ==
  /\ lastOp.kind = "fanout"
  /\ Cardinality(Interested(clientSubscriptions, lastOp.queueName)) = 2
  /\ Len(emitted) = 2

\* C4: after WatchedClient's unsubscribe from WatchedQueue has returned, with
\* another connection staying subscribed, a fan-out for WatchedQueue emits
\* nothing to WatchedClient and emits the message to the connections that stay.
C4_NoDeliveryAfterUnsubscribe ==
  (lastOp.kind = "fanout" /\ lastOp.queueName = WatchedQueue /\ watch = "left") =>
    /\ \A i \in 1..Len(emitted) : emitted[i].to # WatchedClient
    /\ \A c \in Interested(clientSubscriptions, WatchedQueue) \ {WatchedClient} :
         Cardinality(Deliveries(emitted, c, WatchedQueue, lastOp.message)) = 1

\* C5: a subscribe request of WatchedClient for WatchedQueue that follows an
\* earlier one, with no unsubscribe request in between, is answered 'Already
\* subscribed to this queue' and calls no Facade subscribe.
C5_SecondSubscribeIsAlready ==
  (lastOp.kind = "subscribe" /\ lastOp.repeat) =>
    /\ emitted = <<Ev(lastOp.client, "queue:subscribed", lastOp.queueName,
                      "Already subscribed to this queue", NoDetails)>>
    /\ facadeCalls = <<>>

\* C6: in a turn in which connections leave Q (an unsubscribe request or a
\* disconnect takes Q out of their interest-sets), the Facade's unsubscribe(Q)
\* is invoked exactly once if no interest-set contains Q afterwards; if another
\* connection's interest-set still contains Q it is not invoked and a
\* registered handler of Q stays registered. No other turn invokes it.
C6_LastLeaverUnsubscribesOnce ==
  [][\A q \in Queues :
       LET leavers == Interested(clientSubscriptions, q) \ Interested(clientSubscriptions', q)
           remaining == Interested(clientSubscriptions', q)
       IN /\ CallCount(facadeCalls', "unsubscribe", q) =
               (IF leavers # {} /\ remaining = {} THEN 1 ELSE 0)
          /\ (leavers # {} /\ remaining # {} /\ q \in queueHandlers)
               => q \in queueHandlers']_vars

\* a disconnect that left two queues: the last subscriber of one, not of the other
C6_Witness ==
  /\ lastOp.kind = "disconnect"
  /\ Len(visited) = 2
  /\ Len(facadeCalls) = 1
  /\ \E i \in 1..2 : Interested(clientSubscriptions, visited[i]) # {}

\* the orders in which the elements of a Set can be listed
Orders(set) ==
  {o \in [1..Len(set) -> SetElems(set)] : \A i, j \in 1..Len(set) : o[i] = o[j] => i = j}

\* explicit unsubscribes of one connection from the queues of `order`, in turn
RECURSIVE ExplicitUnsubscribes(_, _, _, _)
ExplicitUnsubscribes(st, clientId, order, i) ==
  IF i > Len(order) THEN st
  ELSE LET r == UnsubscribeFromQueue(st.subs, clientId, order[i])
       IN ExplicitUnsubscribes([subs |-> r.subs, calls |-> st.calls \o r.calls],
                               clientId, order, i + 1)

\* C7: a disconnect of a connection with interest-set {Q1, ..., Qn} runs the
\* unsubscribe path once for each Qi and for nothing else; the interest-sets,
\* the handler map and the Facade unsubscribe calls it leaves are those of
\* explicit unsubscribes from each Qi (in any order) followed by the removal of
\* the connection's entry.
C7_DisconnectIsExplicitUnsubscribes ==
  [][lastOp'.kind = "disconnect" =>
       LET c == lastOp'.client
           qs == MapGet(clientSubscriptions, c)
       IN /\ Len(visited') = Len(qs)
          /\ {visited'[i] : i \in 1..Len(visited')} = SetElems(qs)
          /\ ~MapHas(clientSubscriptions', c)
          /\ queueHandlers' = queueHandlers
          /\ \A order \in Orders(qs) :
               LET r == ExplicitUnsubscribes([subs |-> clientSubscriptions, calls |-> <<>>],
                                             c, order, 1)
               IN /\ clientSubscriptions' = MapDelete(r.subs, c)
                  /\ Len(facadeCalls') = Len(r.calls)
                  /\ \A q \in Queues : CallCount(facadeCalls', "unsubscribe", q) =
                                         CallCount(r.calls, "unsubscribe", q)]_vars

\* a connection subscribed to two queues has disconnected
C7_Witness ==
  /\ lastOp.kind = "disconnect"
  /\ Len(visited) = 2 /\ visited[1] # visited[2]
  /\ ~MapHas(clientSubscriptions, lastOp.client)

\* C8: a valid unsubscribe request of C for a queue that is not in C's
\* interest-set changes neither the interest-sets nor the handler map, makes no
\* Facade call and emits exactly one 'queue:unsubscribed' event, to C.
C8_UnsubscribeAbsentIsNoOp ==
  [][(/\ lastOp'.kind = "unsubscribe" /\ lastOp'.path # "invalid"
      /\ lastOp'.client \notin Interested(clientSubscriptions, lastOp'.queueName))
       => /\ clientSubscriptions' = clientSubscriptions
          /\ queueHandlers' = queueHandlers
          /\ facadeCalls' = <<>>
          /\ inflight' = inflight
          /\ Len(emitted') = 1
          /\ emitted'[1].to = lastOp'.client
          /\ emitted'[1].event = "queue:unsubscribed"
          /\ emitted'[1].queueName = lastOp'.queueName]_vars

\* an unsubscribe for a queue that only another connection is subscribed to
C8_Witness ==
  /\ lastOp.kind = "unsubscribe" /\ lastOp.path = "absent"
  /\ Interested(clientSubscriptions, lastOp.queueName) # {}
  /\ Len(emitted) = 1

\* C9: neither turn of a subscribe request whose Facade subscribe fails (the
\* turn that calls the Facade and the turn in which the call rejects) changes
\* an interest-set; the rejecting turn throws the Facade's error out of the
\* handler and emits no 'queue:subscribed' event.
C9_FailedSubscribeKeepsInterestSet ==
  [][/\ (lastOp'.kind = "subscribe" /\ lastOp'.path = "await")
          => clientSubscriptions' = clientSubscriptions
     /\ lastOp'.kind = "subscribeReject"
          => /\ clientSubscriptions' = clientSubscriptions
             /\ lastOp'.thrown \in SubscribeErrors(provider)
             /\ \A i \in 1..Len(emitted') : emitted'[i].event # "queue:subscribed"]_vars

\* the Facade's subscribe has rejected and the requester's interest-set is empty
C9_Witness ==
  /\ lastOp.kind = "subscribeReject"
  /\ MapHas(clientSubscriptions, lastOp.client)
  /\ MapGet(clientSubscriptions, lastOp.client) = <<>>

Rejections == {"subscribeReject", "publishReject"}
Requests == {"subscribe", "unsubscribe", "publish"}

\* the confirmation event of the turn that completes a request, if it is one
ConfirmationOf(op) ==
  CASE op.kind = "subscribe" /\ op.path \in {"already", "joined"} -> "queue:subscribed"
    [] op.kind = "subscribeResolve" -> "queue:subscribed"
    [] op.kind = "unsubscribe" /\ op.path \in {"removed", "absent"} -> "queue:unsubscribed"
    [] op.kind = "publishResolve" -> "queue:published"
    [] OTHER -> Undefined

\* C10: the turn that completes a request emits exactly one event, to the
\* requester: the request's confirmation when it succeeds, a 'queue:error'
\* when it is rejected (by validation or by a failure of the bound adapter);
\* the turn that only starts a Facade call emits nothing.
C10_OneResponsePerRequest ==
  /\ (lastOp.kind \in Rejections \/ (lastOp.kind \in Requests /\ lastOp.path = "invalid"))
       => /\ Len(emitted) = 1
          /\ emitted[1].to = lastOp.client
          /\ emitted[1].event = "queue:error"
  /\ ConfirmationOf(lastOp) # Undefined
       => /\ Len(emitted) = 1
          /\ emitted[1].to = lastOp.client
          /\ emitted[1].event = ConfirmationOf(lastOp)
  /\ (lastOp.kind \in Requests /\ lastOp.path = "await") => emitted = <<>>

\* the error taxonomy of the Facade: NotFound, CreationFailed, PublishFailed,
\* SubscribeFailed
Taxonomy ==
  {"QueueNotFoundError", "QueueCreationError", "QueuePublishError", "QueueSubscribeError"}

\* C11: a failure of the Facade's publish or subscribe, with either adapter
\* bound, is one of QueueNotFoundError, QueueCreationError, QueuePublishError,
\* QueueSubscribeError, and the error event it becomes carries the queue name
\* of the failed operation.
C11_FailuresAreInTaxonomy ==
  lastOp.kind \in Rejections =>
    /\ lastOp.thrown \in Taxonomy
    /\ \A i \in 1..Len(emitted) : emitted[i].queueName = lastOp.queueName

\* C12: a valid unsubscribe request emits exactly one 'queue:unsubscribed'
\* event, to the requester, and nothing else; the turn in which the Facade's
\* unsubscribe resolves or rejects emits nothing, a rejection is only logged.
C12_UnsubscribeAlwaysSucceeds ==
  /\ (lastOp.kind = "unsubscribe" /\ lastOp.path # "invalid")
       => emitted = <<Ev(lastOp.client, "queue:unsubscribed", lastOp.queueName,
                         "Successfully unsubscribed from queue", NoDetails)>>
  /\ lastOp.kind \in {"unsubscribeResolve", "unsubscribeReject"} => emitted = <<>>
  /\ lastOp.kind = "unsubscribeReject" => lastOp.thrown = "logged"

\* the Facade's unsubscribe, triggered by an unsubscribe request, has rejected
C12_Witness ==
  /\ lastOp.kind = "unsubscribeReject"
  /\ lastOp.queueName \in queueHandlers
  /\ emitted = <<>>

\* the constraint messages of the leaves of a ValidationError[], as the
\* ValidationPipe reports them
RECURSIVE ViolatedConstraints(_)
ViolatedConstraints(errors) ==
  IF errors = <<>> THEN <<>>
  ELSE Head(errors).constraints \o ViolatedConstraints(Head(errors).children)
       \o ViolatedConstraints(Tail(errors))


\* the ValidationError[] of the payload of the last request
PayloadErrors(op) ==
  IF op.kind = "publish"
  THEN PublishQueueDtoErrors([queueName |-> op.queueName, message |-> [body |-> op.message]])
  ELSE SubscribeQueueDtoErrors([queueName |-> op.queueName])

\* C19: a request whose payload fails validation makes no Facade call, changes
\* neither the interest-sets nor the handler map nor the pending Facade calls,
\* and is answered with one 'queue:error' event whose details are the messages
\* of the violated constraints.
C19_InvalidPayloadIsRejectedWithDetails ==
  [][(lastOp'.kind \in Requests /\ lastOp'.path = "invalid")
       => /\ facadeCalls' = <<>>
          /\ UNCHANGED <<clientSubscriptions, queueHandlers, inflight>>
          /\ Len(emitted') = 1
          /\ emitted'[1].to = lastOp'.client
          /\ emitted'[1].event = "queue:error"
          /\ emitted'[1].details # NoDetails
          /\ emitted'[1].details = ViolatedConstraints(PayloadErrors(lastOp'))]_vars

\* C13: polling adapter: a handler that was subscribed for Q when an
\* unsubscribe(Q) resolved is never invoked in a later turn, wherever the
\* unsubscribe fell within a poll cycle of that handler.
C13_NoInvocationAfterUnsubscribe ==
  adapterOp.invoked # 0 => adapterOp.invoked \notin retired

\* C14: event-driven adapter: in the turn in which the handler of a delivery
\* fails, the callback sends exactly one nack(msg, false, true) and no ack, and
\* the broker has the message queued again, marked redelivered.
C14_FailedHandlerNacksForRequeue ==
  (provider = "rabbitmq" /\ adapterOp.kind = "handlerFailed") =>
    /\ Len(adapterOp.settled) = 1
    /\ adapterOp.settled[1].op = "nack"
    /\ ~adapterOp.settled[1].allUpTo
    /\ adapterOp.settled[1].requeue
    /\ \E i \in 1..Len(backend.ready) :
         /\ backend.ready[i].by = adapterOp.settled[1].by
         /\ backend.ready[i].redelivered

\* a message whose handler failed is being delivered again
C14_Witness ==
  \E d \in deliveries : d.msg.redelivered

\* the consumers registered at the broker for a queue
Registered(queueName) == {c \in backend.consumers : c.queueName = queueName}

\* C15: event-driven adapter: once every subscribe call of a sequence of
\* subscribe calls has returned, at most one consumer is registered at the
\* broker for the queue, and it is the one the adapter has recorded.
C15_AtMostOneRegistration ==
  (provider = "rabbitmq" /\ adapterCalls = {}) =>
    \A q \in AdapterQueues :
      /\ Cardinality(Registered(q)) <= 1
      /\ \A c \in Registered(q) : rmq.consumers[q] = c.consumerTag

\* the adapter holds no subscription for the name
NoSubscription(queueName) ==
  IF provider = "sqs"
  THEN queueName \notin sqs.subscribedQueues /\ sqs.pollingIntervals[queueName] = 0
  ELSE rmq.consumers[queueName] = 0

\* the last adapter turn was an unsubscribe of the name returning successfully
JustUnsubscribed(queueName) ==
  /\ adapterOp.kind = "unsubscribeReturn"
  /\ adapterOp.returned = "ok"
  /\ adapterOp.queueName = queueName

\* C16: each adapter: an unsubscribe(Q) called while Q has no subscription, or
\* right after an unsubscribe(Q) that succeeded, returns successfully in its
\* own turn and changes nothing in the adapter or at the backend.
C16_UnsubscribeWithoutSubscriptionIsNoOp ==
  [][\A q \in AdapterQueues :
       (/\ adapterOp'.called = "unsubscribe"
        /\ adapterOp'.queueName = q
        /\ NoSubscription(q) \/ JustUnsubscribed(q))
       => /\ adapterOp'.returned = "ok"
          /\ UNCHANGED <<sqs, timers, cycles, rmq, deliveries, backend, adapterCalls>>]_vars

\* the polling adapter has returned from the second of two unsubscribe calls
\* that followed a subscribe: the first retired the handler, the second found
\* no subscription
C16_Witness ==
  /\ provider = "sqs"
  /\ adapterOp.called = "unsubscribe" /\ adapterOp.returned = "ok"
  /\ adapterOp.call = 3 /\ nextCall = 3
  /\ retired = {1}
  /\ NoSubscription(adapterOp.queueName)

\* how many times the backend has accepted the message of publish call `id`
Accepted(id) ==
  Cardinality({i \in 1..Len(backend.accepted) : backend.accepted[i] = id})

\* C17: when publish(Q, m) returns success, the backend has enqueued exactly
\* one message for that call, on a queue Q that exists or existed.
C17_SuccessfulPublishEnqueuedOne ==
  (adapterOp.kind = "publishReturn" /\ adapterOp.returned = "ok") =>
    /\ Accepted(adapterOp.call) = 1
    /\ adapterOp.queueName \in backend.queues \/ backend.deleted

\* C18: in a turn in which the gateway emits 'queue:published', the publish
\* call it answers for has returned successfully and the backend has accepted
\* its message before.
C18_AcceptancePrecedesSuccess ==
  \A i \in 1..Len(emitted) :
    emitted[i].event = "queue:published" =>
      /\ adapterOp.call # 0
      /\ adapterOp.returned = "ok"
      /\ Accepted(adapterOp.call) >= 1

\* C20: when the handler is invoked, the one prior subscriber is sent exactly
\* one {queueName, message} whose body and attributes are those some message
\* now delivered was published with, and whose id is assigned.
C20_DeliveredAsPublished ==
  adapterOp.invoked # 0 =>
    \E m \in backend.taken :
      /\ emitted = <<Ev(Requester, "queue:message", adapterOp.queueName,
                        QueueMessage(adapterOp.message.id, m.input.body,
                                     m.input.attributes), NoDetails)>>
      /\ adapterOp.message.id # NoId

\* C21: in a fan-out for Q in which the send to one interested connection
\* fails, every other live connection whose interest-set contains Q is sent
\* the message exactly once.
C21_SendFailureIsIsolated ==
  (lastOp.kind = "fanout" /\ lastOp.path = "sendFailed") =>
    \A c \in (sockets \cap Interested(clientSubscriptions, lastOp.queueName))
              \ {lastOp.client} :
      Cardinality(Deliveries(emitted, c, lastOp.queueName, lastOp.message)) = 1

\* C22: whenever no Facade call is in flight, the bound adapter holds a
\* subscription for Q only if the interest-set of some live connection
\* contains Q.
C22_SubscriptionOnlyWhileInterest ==
  Quiescent =>
    \A q \in AdapterQueues :
      HoldsSubscription(q) => (sockets \cap Interested(clientSubscriptions, q)) # {}

AdapterClasses == {"SqsProvider", "RabbitMqProvider"}

\* C23: forRoot with the selected provider's configuration given returns a
\* module that registers exactly one adapter class, the selected provider's,
\* and resolves QUEUE_PROVIDER to it; with that configuration missing it
\* throws the provider's 'configuration is required' error, returns no module
\* and no adapter is bound.
C23_ForRootBindsOneAdapter ==
  lastOp.kind = "forRoot" =>
    LET options == lastOp.options
        providers == lastOp.module.providers
        config == IF options.provider = "sqs" THEN options.sqs ELSE options.rabbitmq
        class == IF options.provider = "sqs" THEN "SqsProvider" ELSE "RabbitMqProvider"
    IN IF config = NoConfig
       THEN /\ lastOp.thrown =
                 (IF options.provider = "sqs"
                  THEN "SQS configuration is required when using SQS provider"
                  ELSE "RabbitMQ configuration is required when using RabbitMQ provider")
            /\ lastOp.module = NoModule
            /\ provider = Undefined
       ELSE /\ lastOp.thrown = "none"
            /\ {providers[i].provide : i \in 1..Len(providers)} \cap AdapterClasses = {class}
            /\ Cardinality(Provided(providers, class)) = 1
            /\ Cardinality(Provided(providers, "QUEUE_PROVIDER")) = 1
            /\ Resolve(providers, "QUEUE_PROVIDER") = class
            /\ provider = options.provider

\* forRoot was given both configurations and has bound the RabbitMQ adapter
C23_Witness ==
  /\ lastOp.kind = "forRoot"
  /\ lastOp.options.sqs # NoConfig /\ lastOp.options.rabbitmq # NoConfig
  /\ provider = "rabbitmq"

\* the watched connection is connected and holds the watched queue in its
\* interest-set: it was sent 'queue:subscribed' in the turn that added it
WatchedSubscribed ==
  WatchedClient \in sockets \cap Interested(clientSubscriptions, WatchedQueue)

\* a 'queue:message' event for the watched queue is emitted to the connection
WatchedReceives ==
  \E i \in 1..Len(emitted) :
    /\ emitted[i].to = WatchedClient
    /\ emitted[i].event = "queue:message"
    /\ emitted[i].queueName = WatchedQueue

\* C24: a connection that was sent 'queue:subscribed' for a queue and stays
\* connected and subscribed is eventually sent every message published to the
\* queue afterwards, when the backend delivers and timers and callbacks run
C24_SubscribedEventuallyReceives ==
  (WatchedSubscribed /\ backend.ready # <<>>) ~> (WatchedReceives \/ ~WatchedSubscribed)

\* C25: a connection that has disconnected is never again a key of the
\* interest-set map, is never a recipient of a fan-out and is sent no event,
\* also when its subscribe request was awaiting the Facade when it disconnected
C25_GoneIsNeverAddressed ==
  \A c \in gone :
    /\ ~MapHas(clientSubscriptions, c)
    /\ \A i \in 1..Len(emitted) : emitted[i].to # c

\* C26: a publish or subscribe issued while the RabbitMqProvider holds no
\* channel or no connection first awaits a new connection and a new channel,
\* then goes on with its operation on that channel, and fails before that only
\* in the turn in which the connection attempt fails
C26_LazyConnectThenProceed ==
  [][/\ (/\ adapterOp'.called \in {"publish", "subscribe"}
         /\ (rmq.connection = NoConnection \/ rmq.channel = NoConnection))
        => \E c \in adapterCalls' : c.id = adapterOp'.call /\ c.pc = "connect"
     /\ \A c \in adapterCalls :
          (c.op \in {"publish", "subscribe"} /\ c.pc \in {"connect", "createChannel"}) =>
            \/ c \in adapterCalls'
            \/ /\ c.pc = "connect"
               /\ [c EXCEPT !.pc = "createChannel"] \in adapterCalls'
               /\ rmq'.connection = c.id
               /\ c.id \in backend'.connections \ backend.connections
            \/ /\ c.pc = "createChannel"
               /\ [c EXCEPT !.pc = "assertQueue"] \in adapterCalls'
               /\ rmq'.channel = c.id
               /\ c.id \in backend'.channels \ backend.channels
               /\ rmq'.held \ rmq.held = {<<c.id, c.id>>}
            \/ /\ \A d \in adapterCalls' : d.id # c.id
               /\ adapterOp'.call = c.id
               /\ adapterOp'.returned = "Error"
               /\ c.id \notin backend'.channels]_vars

\* a publish that found no channel has connected and returned successfully
C26_Witness ==
  /\ adapterOp.kind = "publishReturn"
  /\ adapterOp.returned = "ok"
  /\ <<adapterOp.call, adapterOp.call>> \in rmq.held
  /\ adapterOp.call \in backend.channels

\* the calls whose connect() is in flight
Connecting == {c \in adapterCalls : c.pc \in {"connect", "createChannel"}}

\* C27: at most one connection setup attempt of the RabbitMqProvider is in
\* flight at any time, and no connection is open at the broker that the
\* provider does not reference
C27_OneConnectAttempt ==
  /\ Cardinality(Connecting) <= 1
  /\ backend.connections \subseteq {rmq.connection}

\* C28: a publish or subscribe called after the provider's connection has
\* emitted 'close' or 'error' connects anew before it uses a channel
C28_ReconnectsAfterClose ==
  [][(/\ adapterOp'.called \in {"publish", "subscribe"}
      /\ rmq.connection # NoConnection
      /\ rmq.connection \notin backend.connections)
     => \E c \in adapterCalls' : c.id = adapterOp'.call /\ c.pc = "connect"]_vars

\* C30: the RabbitMqProvider's teardown returns without raising whichever of
\* its steps fail, and the consumer registry is empty when it returns
C30_TeardownNeverRaises ==
  adapterOp.kind = "destroyReturn" =>
    /\ adapterOp.returned = "ok"
    /\ rmq.teardown = "done"
    /\ \A q \in AdapterQueues : rmq.consumers[q] = 0

\* a teardown has returned whose cancel and whose channel close both failed
C30_Witness ==
  /\ adapterOp.kind = "destroyReturn"
  /\ {"cancel", "closeChannel"} \subseteq rmq.failed

\* C29: the SqsProvider's teardown cancels every schedule and empties the
\* schedule map and the set of subscribed names, and once it has run no
\* receive call and no handler invocation is started, not even by a poll cycle
\* or a subscribe call that was in flight when it ran
C29_NothingStartsAfterTeardown ==
  [][/\ adapterOp'.kind = "destroy" =>
          /\ timers' = {}
          /\ \A q \in AdapterQueues : sqs'.pollingIntervals[q] = 0
          /\ sqs'.subscribedQueues = {}
     /\ sqs.destroyed =>
          /\ \A c \in cycles' \ cycles : c.pc # "receive"
          /\ adapterOp'.invoked = 0
          /\ timers' = {}]_vars

\* C31: the RabbitMqProvider's teardown cancels the consumers, then closes the
\* channel, then closes the connection, and a failure of one step does not
\* keep it from attempting the later ones: with a connection held that is
\* open at the broker, teardown returns only from the connection's close
C31_TeardownAttemptsEveryStep ==
  [][/\ rmq'.teardown = "closeChannel" => rmq.teardown \in {"none", "cancel", "closeChannel"}
     /\ rmq'.teardown = "closeConnection" => rmq.teardown \in {"closeChannel", "closeConnection"}
     /\ (/\ rmq'.teardown = "done" /\ rmq.teardown # "done"
         /\ rmq.connection \in backend.connections)
          => rmq.teardown = "closeConnection"]_vars

\* the messages SQS holds: those ready to be received and those received and
\* not yet deleted
SqsHeld(b) == b.taken \cup {b.ready[i] : i \in 1..Len(b.ready)}

\* C32: polling adapter: the DeleteMessageCommand of a received message is sent
\* only in the turn in which its handler invocation succeeded, and SQS drops a
\* message only on that command; after a failed handler, or when the queue is
\* found no longer subscribed, nothing is deleted, and the only invocation the
\* loop goes on to is that of the next message of the batch.
C32_DeleteOnlyAfterHandlerSuccess ==
  [][provider = "sqs" =>
       /\ \A c \in cycles' \ cycles :
            c.pc = "delete" => /\ adapterOp'.kind = "handlerDone"
                               /\ [c EXCEPT !.pc = "handler"] \in cycles
       /\ adapterOp'.settled # <<>> =>
            /\ adapterOp'.kind = "handlerDone"
            /\ \E c \in cycles : /\ c.pc = "handler"
                                  /\ adapterOp'.settled =
                                       <<[op |-> "delete", by |-> Head(c.batch).by]>>
       /\ \A m \in SqsHeld(backend) \ SqsHeld(backend') :
            \E c \in cycles : c.pc = "delete" /\ Head(c.batch) = m
       /\ adapterOp'.kind = "handlerFailed" =>
            /\ backend' = backend
            /\ \E c \in cycles \ cycles' :
                 /\ c.pc = "handler"
                 /\ Head(c.batch) \in backend'.taken
                 /\ adapterOp'.invoked # 0 =>
                      /\ Len(c.batch) > 1
                      /\ c.batch[2] # c.batch[1]
                      /\ adapterOp'.message = SqsQueueMessage(c.batch[2])
       /\ (/\ adapterOp'.kind \in {"receiveReturn", "handlerFailed", "deleteReturn"}
           /\ adapterOp'.queueName \notin sqs.subscribedQueues)
            => /\ adapterOp'.invoked = 0
               /\ adapterOp'.settled = <<>>
               /\ cycles' \subseteq cycles]_vars

\* the handler of a received message has succeeded and the message's delete
\* is on its way
C32_Witness ==
  /\ provider = "sqs"
  /\ adapterOp.kind = "handlerDone"
  /\ adapterOp.settled # <<>>
  /\ \E c \in cycles : c.pc = "delete" /\ Head(c.batch) \in backend.taken

\* C33: polling adapter: once a new subscription is installed for Q, a handler
\* invoked for a message of Q is the handler of that newest subscription, also
\* when the invoking poll cycle belongs to an earlier subscription.
C33_OnlyNewestHandlerInvoked ==
  (/\ provider = "sqs"
   /\ adapterOp.invoked # 0
   /\ sqs.pollingIntervals[adapterOp.queueName] # 0)
    => adapterOp.invoked = sqs.pollingIntervals[adapterOp.queueName]

C35_BackpressureFailsPublish ==
  (/\ provider = "rabbitmq"
   /\ adapterOp.kind = "publishReturn"
   /\ backend.full
   /\ \E i \in 1..Len(backend.wire) : backend.wire[i].by = adapterOp.call)
    => /\ adapterOp.returned = "Error"
       /\ \A i \in 1..Len(emitted) : emitted[i].event # "queue:published"

\* a publish has returned in the turn in which its sendToQueue returned false
C35_Witness ==
  /\ provider = "rabbitmq"
  /\ adapterOp.kind = "publishReturn"
  /\ backend.full
  /\ adapterOp.returned = "Error"
  /\ \E i \in 1..Len(backend.wire) : backend.wire[i].by = adapterOp.call

\* C36: every turn of a publish request (the handler up to its await, and its
\* resumption when the Facade's publish resolved or rejected) leaves the
\* interest-sets and the handler map unchanged; the handler's turn calls the
\* Facade's publish once, with the request's queue name and message, and the
\* resumption calls nothing.
C36_PublishChangesNoRegistryState ==
  [][lastOp'.kind \in {"publish", "publishResolve", "publishReject"} =>
       /\ UNCHANGED <<clientSubscriptions, queueHandlers, handed, sockets>>
       /\ (lastOp'.kind = "publish" /\ lastOp'.path = "await") =>
            /\ facadeCalls' = <<FacadeCall("publish", lastOp'.queueName, lastOp'.message)>>
            /\ inflight' = inflight (+)
                 SetToBag({Pending("publish", lastOp'.client, lastOp'.queueName, Undefined)})
       /\ lastOp'.kind \in {"publishResolve", "publishReject"} =>
            /\ facadeCalls' = <<>>
            /\ inflight = inflight' (+)
                 SetToBag({Pending("publish", lastOp'.client, lastOp'.queueName, Undefined)})]_vars

\* a publish request has failed at the Facade while a connection holds an
\* interest in the queue and its handler is in the map
C36_Witness ==
  /\ lastOp.kind = "publishReject"
  /\ MapHas(clientSubscriptions, lastOp.client)
  /\ SetHas(MapGet(clientSubscriptions, lastOp.client), lastOp.queueName)
  /\ lastOp.queueName \in queueHandlers

\* the last turn invoked the handler with the message the backend knows as `by`
InvokedFor(by) ==
  /\ adapterOp.invoked # 0
  /\ \/ \E c \in cycles : /\ c.pc = "handler" /\ c.sub = adapterOp.invoked
                           /\ Head(c.batch).by = by
     \/ \E d \in deliveries : d.consumerTag = adapterOp.invoked /\ d.msg.by = by

\* C37: when the adapter acks or deletes a message of Q right after the
\* invocation of the handler with it, that invocation emitted the message to at
\* least one connection; a message that arrives after the last interested
\* connection left, before the Facade's unsubscribe completed, is not acked.
C37_AckedOnlyIfDelivered ==
  [][\A i \in 1..Len(adapterOp'.settled) :
       (/\ adapterOp'.settled[i].op \in {"ack", "delete"}
        /\ InvokedFor(adapterOp'.settled[i].by))
       => \E j \in 1..Len(emitted) :
            /\ emitted[j].event = "queue:message"
            /\ emitted[j].queueName = adapterOp.queueName]_vars

\* C38: whenever the interest-set of a connection contains Q and no Facade
\* call for Q is in flight, the bound adapter holds a subscription for Q, also
\* when the connection subscribed while the Facade's unsubscribe started by
\* the previous last subscriber of Q was pending.
C38_InterestImpliesSubscription ==
  \A q \in AdapterQueues :
    (/\ Interested(clientSubscriptions, q) # {}
     /\ \A p \in BagToSet(inflight) : p.queueName # q)
      => HoldsSubscription(q)

\* C39: after a subscribe request for Q failed at the Facade, Q has no handler
\* in the map, so that the next subscribe request for Q calls the Facade's
\* subscribe again and no connection is confirmed on the strength of the
\* handler the failed attempt left.
C39_FailedSubscribeUnregisters ==
  [][/\ (lastOp'.kind = "subscribeReject" /\ Interested(clientSubscriptions', lastOp'.queueName) = {})
         => lastOp'.queueName \notin queueHandlers'
     /\ (/\ lastOp.kind = "subscribeReject"
         /\ lastOp'.kind = "subscribe"
         /\ lastOp'.queueName = lastOp.queueName
         /\ lastOp'.path # "invalid"
         /\ Interested(clientSubscriptions, lastOp.queueName) = {}
         /\ \A p \in BagToSet(inflight) : p.queueName # lastOp.queueName)
         => /\ facadeCalls' = <<FacadeCall("subscribe", lastOp'.queueName, Undefined)>>
            /\ \A i \in 1..Len(emitted') : emitted'[i].event # "queue:subscribed"]_vars

====
